---- MODULE Spec2Model ----
(***************************************************************************)
(* Path planning of psaggot-visit: the three planners of                   *)
(* src/algorithmics (solution_stage1, solution_stage2, solution_stage3),   *)
(* the threats of src/algorithmics/enemy and the layered (budgeted) graph. *)
(*                                                                         *)
(* Lengths are fixed-point numbers in tenths of a map unit: 5 stands for   *)
(* the quantum 0.5, 50 for EDGE_RADIUS = 5.  Bearings are whole degrees in *)
(* (-180, 180], as math.atan2 yields them in radians.  A circle is the     *)
(* exact disc (shapely's buffer is a polygon of 64 sides inscribed in it); *)
(* approximate_boundary has 4 vertices for the 20 and 30 of the code; an   *)
(* asteroids zone is a convex polygon.  random.uniform draws from a small  *)
(* set of points, and SAMPLES is cut down to MaxSamples draws.             *)
(*                                                                         *)
(* Spec is one calculate_path with sample_in_polygon taken as one step.    *)
(* SamplingSpec is the rejection loop of sample_in_polygon step by step,   *)
(* for two queries that run concurrently, each for one radar built from    *)
(* its scenario descriptor.                                                *)
(* SubmissionSpec is submission_app: submit_button_clicked for the users  *)
(* of one scenario, one request at a time; ConcurrentSubmissionSpec lets   *)
(* the requests interleave between load_submission_dict and                *)
(* save_submission_dict.                                                   *)
(***************************************************************************)
EXTENDS Integers, Sequences, FiniteSets, TLC

VARIABLES variant, source, target, enemies, pc, graph, layers_graph, path, raised,
          descriptor, query_radar, sampler_pc, random_state, x, point,
          submissions_file, clock, request_pc, request_path, submissions, submit_message,
          saved

\* the locals of one calculate_path
planner_vars == <<variant, source, target, enemies, pc, graph, layers_graph, path, raised>>

\* two concurrent queries inside sample_in_polygon and the generator of the
\* random module that they share
sampler_vars == <<descriptor, query_radar, sampler_pc, random_state, x, point>>

\* the submissions file of the scenario, time.time(), and for every user the
\* request in progress, the response to the last request, and the lengths of
\* the paths that save_path has stored for the user
submission_vars ==
    <<submissions_file, clock, request_pc, request_path, submissions, submit_message, saved>>

vars == <<planner_vars, sampler_vars, submission_vars>>

(***************************************************************************)
(* Bounds of the model and constants of the program.                       *)
(***************************************************************************)
\* at most this many enemies in a scenario
MaxEnemies == 2
\* the sampler's SAMPLES is cut down to this many draws
MaxSamples == 2
\* SAMPLES = 2000
SAMPLES == 2000
\* EDGE_RADIUS = 5, in tenths
EDGE_RADIUS == 50
\* quanta: float = 0.5, in tenths
DefaultQuanta == 5
\* max_detection_percentage=0.1, in percent
DefaultPercentage == 10
\* math.radians(45), in degrees
DetectionAngle == 45

Min(S) == CHOOSE m \in S : \A o \in S : m <= o
Abs(i) == IF i < 0 THEN -i ELSE i
Range(s) == {s[i] : i \in DOMAIN s}

\* nearest integer to the square root of n >= 0, found digit by digit to the
\* base 32 (the digit is the number of candidates not above the root, less 1)
ISqrt(n) ==
    LET a == 1024 * (Cardinality({i \in 0..19 : (1024 * i) * (1024 * i) <= n}) - 1)
        b == a + 32 * (Cardinality({i \in 0..31 : (a + 32 * i) * (a + 32 * i) <= n}) - 1)
        c == b + Cardinality({i \in 0..31 : (b + i) * (b + i) <= n}) - 1
    IN  IF (2 * c + 1) * (2 * c + 1) <= 4 * n THEN c + 1 ELSE c

(***************************************************************************)
(* Coordinate (algorithmics/utils/coordinate.py): a point <<x, y>>.        *)
(***************************************************************************)
Sub(a, b) == <<a[1] - b[1], a[2] - b[2]>>
Dot(a, b) == a[1] * b[1] + a[2] * b[2]
Cross(a, b) == a[1] * b[2] - a[2] * b[1]

distance_to(a, b) == ISqrt(Dot(Sub(b, a), Sub(b, a)))

\* atan of n/d in degrees for 0 <= n <= d, d > 0 (within a quarter degree)
AtanDeg(n, d) ==
    LET z == (n * 1000) \div d
    IN  (45000 * z + (1564 * z * (1000 - z)) \div 100 + 500000) \div 1000000

\* math.atan2(dy, dx) in whole degrees, in (-180, 180]
Atan2Deg(dy, dx) ==
    IF dx = 0 /\ dy = 0 THEN 0
    ELSE LET a == Abs(dy)
             b == Abs(dx)
             base == IF a <= b THEN AtanDeg(a, b) ELSE 90 - AtanDeg(b, a)
         IN  IF dx >= 0 /\ dy >= 0 THEN base
             ELSE IF dx < 0 /\ dy >= 0 THEN 180 - base
             ELSE IF dx < 0 THEN base - 180
             ELSE 0 - base

direction_to(a, b) == Atan2Deg(b[2] - a[2], b[1] - a[1])

\* the canonical string form of a coordinate, as its two numbers
coordinate_str(c) == [x |-> c[1], y |-> c[2]]
from_str(s) == <<s.x, s.y>>

(***************************************************************************)
(* Enemies.  One record shape for the three classes: a circle has center   *)
(* and radius, an asteroids zone has its boundary.                         *)
(***************************************************************************)
ObservationPost(center, radius) ==
    [type |-> "ObservationPost", center |-> center, radius |-> radius, boundary |-> <<>>]
Radar(center, radius) ==
    [type |-> "Radar", center |-> center, radius |-> radius, boundary |-> <<>>]
AsteroidsZone(boundary) ==
    [type |-> "AsteroidsZone", center |-> <<0, 0>>, radius |-> 0, boundary |-> boundary]

\* a disc of radius r around o meets the segment p--q in more than its rim
SegmentInDisc(o, r, p, q) ==
    LET d == Sub(q, p)
        f == Sub(o, p)
        l2 == Dot(d, d)
        along == Dot(f, d)
    IN  IF l2 = 0 \/ along <= 0 THEN Dot(f, f) < r * r
        ELSE IF along >= l2 THEN Dot(Sub(o, q), Sub(o, q)) < r * r
        ELSE Cross(d, f) * Cross(d, f) < r * r * l2

\* twice the signed area of a polygon given by its vertex list
RECURSIVE Area2From(_, _)
Area2From(poly, i) ==
    IF i > Len(poly) THEN 0
    ELSE Cross(poly[i], poly[(i % Len(poly)) + 1]) + Area2From(poly, i + 1)
Area2(poly) == Area2From(poly, 1)

\* the segment p--q holds a point of the interior of the convex polygon poly
SegmentInPolygon(poly, p, q) ==
    LET n == Len(poly)
        s == IF Area2(poly) >= 0 THEN 1 ELSE -1
        e(i) == Sub(poly[(i % n) + 1], poly[i])
        a(i) == s * Cross(e(i), Sub(p, poly[i]))
        b(i) == s * Cross(e(i), Sub(q, p))
        I == 1..n
    IN  /\ n >= 3
        /\ Area2(poly) # 0
        /\ \A i \in I : b(i) = 0 => a(i) > 0
        /\ \A i \in I : b(i) > 0 => a(i) + b(i) > 0
        /\ \A i \in I : b(i) < 0 => a(i) > 0
        /\ \A i, j \in I : (b(i) > 0 /\ b(j) < 0) => a(i) * b(j) < a(j) * b(i)

\* AsteroidsZone.is_legal_leg: the polygon shrunk by 1e-6 does not meet the leg
AsteroidsZone_is_legal_leg(enemy, start, end) ==
    ~SegmentInPolygon(enemy.boundary, start, end)

\* ObservationPost.is_legal_leg: the circle shrunk by 1e-6 does not meet the leg
ObservationPost_is_legal_leg(enemy, start, end) ==
    ~SegmentInDisc(enemy.center, enemy.radius, start, end)

\* <<sin(i * angle_step), cos(i * angle_step)>> for i in range(n), with n = 4
ApproxDirections == << <<0, 1>>, <<1, 0>>, <<0, -1>>, <<-1, 0>> >>

\* the radius itself: the polygon inscribed in the circle
unbuffed_radius(radius) == radius

\* radius / cos(angle_step / 2) for the square, rounded up
buffed_radius(radius) == (radius * 1415 + 999) \div 1000

\* ObservationPost.approximate_boundary, Radar.approximate_boundary
approximate_boundary(enemy) ==
    [i \in 1..Len(ApproxDirections) |->
        <<enemy.center[1] + buffed_radius(enemy.radius) * ApproxDirections[i][1],
          enemy.center[2] + buffed_radius(enemy.radius) * ApproxDirections[i][2]>>]

NormDeg(a) == LET m == a % 360 IN IF m > 180 THEN m - 360 ELSE m

\* the angle between the two directions, not folded at a right angle
compute_direction_diff_unfolded(direction1, direction2) ==
    LET angle_diff == (direction1 - direction2) % 360
    IN  IF angle_diff <= 180 THEN angle_diff ELSE 360 - angle_diff

\* the difference of the two directions as an absolute value, without the
\* reduction to a turn and the folding
compute_direction_diff_absolute(direction1, direction2) ==
    IF direction1 >= direction2 THEN direction1 - direction2 ELSE direction2 - direction1

\* Radar._compute_direction_diff
compute_direction_diff(direction1, direction2) ==
    LET angle_diff == (direction1 - direction2) % 360
    IN  IF angle_diff <= 90 THEN angle_diff
        ELSE IF angle_diff <= 180 THEN 180 - angle_diff
        ELSE IF angle_diff <= 270 THEN angle_diff - 180
        ELSE 360 - angle_diff

\* The bearings from the two ends of leg /\ circle to the center, in the
\* order of travel.  An end of the leg inside the circle is an end of the
\* intersection; otherwise the end lies on the rim, where the center is seen
\* under the angle atan2(cross, +-sqrt(r^2 |d|^2 - cross^2)) off the travel.
radar_intersection(enemy, start, end) ==
    LET o == enemy.center
        r == enemy.radius
        d == Sub(end, start)
        cr == Cross(d, Sub(o, start))
        sq == ISqrt(r * r * Dot(d, d) - cr * cr)
        theta == direction_to(start, end)
        inside(p) == Dot(Sub(o, p), Sub(o, p)) <= r * r
    IN  IF ~SegmentInDisc(o, r, start, end) THEN <<>>
        ELSE << IF inside(start) THEN direction_to(start, o)
                ELSE NormDeg(theta + Atan2Deg(cr, sq)),
                IF inside(end) THEN direction_to(end, o)
                ELSE NormDeg(theta + Atan2Deg(cr, 0 - sq)) >>

\* Radar.is_legal_leg with the test made at the first point of the
\* intersection only
Radar_is_legal_leg_entry_only(enemy, start, end) ==
    LET inter == radar_intersection(enemy, start, end)
        movement_direction == direction_to(start, end)
    IN  IF inter = <<>> THEN TRUE
        ELSE ~(compute_direction_diff(movement_direction, inter[1]) < DetectionAngle)

\* Radar.is_legal_leg
Radar_is_legal_leg(enemy, start, end) ==
    LET inter == radar_intersection(enemy, start, end)
        movement_direction == direction_to(start, end)
    IN  IF inter = <<>> THEN TRUE
        ELSE \A i \in 1..2 :
                ~(compute_direction_diff(movement_direction, inter[i]) < DetectionAngle)

\* Enemy.is_legal_leg, by class
enemy_is_legal_leg(enemy, start, end) ==
    CASE enemy.type = "AsteroidsZone" -> AsteroidsZone_is_legal_leg(enemy, start, end)
      [] enemy.type = "ObservationPost" -> ObservationPost_is_legal_leg(enemy, start, end)
      [] enemy.type = "Radar" -> Radar_is_legal_leg(enemy, start, end)

is_legal_leg(start, end, enemy_list) ==
    \A i \in DOMAIN enemy_list : enemy_is_legal_leg(enemy_list[i], start, end)

is_leg_legal_only_no_entrances(start, end, enemy_list) ==
    \A i \in DOMAIN enemy_list :
        enemy_list[i].type # "Radar" => enemy_is_legal_leg(enemy_list[i], start, end)

is_leg_legal_only_radars(start, end, enemy_list) ==
    \A i \in DOMAIN enemy_list :
        enemy_list[i].type = "Radar" => enemy_is_legal_leg(enemy_list[i], start, end)

(***************************************************************************)
(* networkx graphs.  A graph is its node list (in insertion order) and its *)
(* edges, one record per ordered pair; an edge of solution_stage1 or       *)
(* solution_stage2 has no detected attribute (kept FALSE here).            *)
(***************************************************************************)
EmptyGraph == [nodes |-> <<>>, edges |-> {}]

add_node(g, n) == IF n \in Range(g.nodes) THEN g ELSE [g EXCEPT !.nodes = Append(@, n)]

\* Graph.add_nodes_from: the new ones among ns are appended in their order
add_nodes_from(g, ns) ==
    LET new == {i \in DOMAIN ns : /\ ns[i] \notin Range(g.nodes)
                                   /\ \A j \in 1..(i - 1) : ns[j] # ns[i]}
        nth(k) == CHOOSE i \in new : Cardinality({j \in new : j < i}) = k - 1
    IN  [g EXCEPT !.nodes = @ \o [k \in 1..Cardinality(new) |-> ns[nth(k)]]]

\* DiGraph.add_edge for each edge of new (all between nodes of g): an
\* existing edge between the same two nodes is overwritten
add_edges(g, new) ==
    [g EXCEPT !.edges = {e \in @ : \A f \in new : ~(f.u = e.u /\ f.v = e.v)} \cup new]

\* solution_stage1.add_enemies_to_graph
RECURSIVE add_enemies_to_graph_stage1(_, _)
add_enemies_to_graph_stage1(g, enemy_list) ==
    IF enemy_list = <<>> THEN g
    ELSE LET enemy == Head(enemy_list)
             g1 == IF enemy.type = "AsteroidsZone"
                   THEN add_nodes_from(g, enemy.boundary) ELSE g
             g2 == IF enemy.type = "ObservationPost"
                   THEN add_nodes_from(g1, approximate_boundary(enemy)) ELSE g1
         IN  add_enemies_to_graph_stage1(g2, Tail(enemy_list))

\* the seeding of stages 2 and 3 with the radars left out, as in stage 1
add_enemies_to_graph_without_radars(g, enemy_list) ==
    add_enemies_to_graph_stage1(g, enemy_list)

\* solution_stage2.add_enemies_to_graph, solution_stage3.add_enemies_to_graph
RECURSIVE add_enemies_to_graph(_, _)
add_enemies_to_graph(g, enemy_list) ==
    IF enemy_list = <<>> THEN g
    ELSE LET enemy == Head(enemy_list)
             g1 == IF enemy.type = "AsteroidsZone"
                   THEN add_nodes_from(g, enemy.boundary) ELSE g
             g2 == IF enemy.type = "ObservationPost" \/ enemy.type = "Radar"
                   THEN add_nodes_from(g1, approximate_boundary(enemy)) ELSE g1
         IN  add_enemies_to_graph(g2, Tail(enemy_list))

\* combinations(graph.nodes, 2): the pairs of positions i < j of the node list
Combinations(g) == {ij \in (DOMAIN g.nodes) \X (DOMAIN g.nodes) : ij[1] < ij[2]}

\* the loop over the pairs without its test of is_legal_leg
connect_stage1_untested(g, enemy_list) ==
    [g EXCEPT !.edges = UNION {
        LET node1 == g.nodes[ij[1]]
            node2 == g.nodes[ij[2]]
            dist == distance_to(node1, node2)
        IN  {[u |-> node1, v |-> node2, dist |-> dist, detected |-> FALSE],
             [u |-> node2, v |-> node1, dist |-> dist, detected |-> FALSE]}
        : ij \in Combinations(g)}]

\* solution_stage1.calculate_path, the loop over the pairs (an undirected Graph:
\* an edge is stored for both directions)
connect_stage1(g, enemy_list) ==
    [g EXCEPT !.edges = UNION {
        LET node1 == g.nodes[ij[1]]
            node2 == g.nodes[ij[2]]
            dist == distance_to(node1, node2)
        IN  IF is_legal_leg(node1, node2, enemy_list)
            THEN {[u |-> node1, v |-> node2, dist |-> dist, detected |-> FALSE],
                  [u |-> node2, v |-> node1, dist |-> dist, detected |-> FALSE]}
            ELSE {} : ij \in Combinations(g)}]

\* solution_stage2.calculate_path, the loop over the pairs
connect_stage2(g, enemy_list) ==
    [g EXCEPT !.edges = UNION {
        LET node1 == g.nodes[ij[1]]
            node2 == g.nodes[ij[2]]
            dist == distance_to(node1, node2)
        IN  IF is_legal_leg(node1, node2, enemy_list)
            THEN {[u |-> node1, v |-> node2, dist |-> dist, detected |-> FALSE],
                  [u |-> node2, v |-> node1, dist |-> dist, detected |-> FALSE]}
            ELSE {} : ij \in Combinations(g)}]

\* the loop over the pairs with the legs that only the radars forbid kept and
\* flagged detected
connect_stage3_flagged(g, enemy_list) ==
    add_edges(g,
        UNION {LET node1 == g.nodes[ij[1]]
                   node2 == g.nodes[ij[2]]
               IN  IF ~is_leg_legal_only_no_entrances(node1, node2, enemy_list) THEN {}
                   ELSE {[u |-> node1, v |-> node2, dist |-> distance_to(node1, node2),
                          detected |-> ~is_leg_legal_only_radars(node1, node2, enemy_list)],
                         [u |-> node2, v |-> node1, dist |-> distance_to(node2, node1),
                          detected |-> ~is_leg_legal_only_radars(node2, node1, enemy_list)]}
               : ij \in Combinations(g)})

\* solution_stage3.calculate_path, the loop over the pairs
connect_stage3(g, enemy_list) ==
    [g EXCEPT !.edges = UNION {
        LET node1 == g.nodes[ij[1]]
            node2 == g.nodes[ij[2]]
            dist == distance_to(node1, node2)
        IN  IF ~is_legal_leg(node1, node2, enemy_list) THEN {}
            ELSE {[u |-> node1, v |-> node2, dist |-> dist, detected |-> FALSE],
                  [u |-> node2, v |-> node1, dist |-> dist, detected |-> FALSE]}
        : ij \in Combinations(g)}]

(***************************************************************************)
(* The sampler (probabilistic roadmap).                                    *)
(***************************************************************************)
\* the draws of random.uniform that the model considers, relative to the center
SampleOffsets == {<<-1, 0>>, <<0, 0>>}

\* sample_in_polygon(radar.circle): the points the rejection loop can return,
\* the draws in the bounding box that the circle contains
sample_in_polygon(radar) ==
    {p \in {<<radar.center[1] + o[1], radar.center[2] + o[2]>> : o \in SampleOffsets} :
        /\ Abs(p[1] - radar.center[1]) <= radar.radius
        /\ Abs(p[2] - radar.center[2]) <= radar.radius
        /\ Dot(Sub(p, radar.center), Sub(p, radar.center)) < radar.radius * radar.radius}

Radars(enemy_list) == SelectSeq(enemy_list, LAMBDA enemy : enemy.type = "Radar")

ModelSamples == IF SAMPLES < MaxSamples THEN SAMPLES ELSE MaxSamples

\* every radar given all the samples
samples_per_radar_undivided(enemy_list) == ModelSamples

samples_per_radar(enemy_list) == ModelSamples \div Len(Radars(enemy_list))

\* the lists of k draws inside one radar
RECURSIVE Draws(_, _)
Draws(radar, k) ==
    IF k = 0 THEN {<<>>}
    ELSE {<<p>> \o rest : p \in sample_in_polygon(radar), rest \in Draws(radar, k - 1)}

\* the values new_nodes can take: samples_per_radar draws for every radar in turn
RECURSIVE NewNodes(_, _)
NewNodes(radars, k) ==
    IF radars = <<>> THEN {<<>>}
    ELSE {first \o rest : first \in Draws(Head(radars), k), rest \in NewNodes(Tail(radars), k)}

\* solution_stage2.add_nodes_inside_radars, the loop over graph.nodes for one node
connect_node_stage2(g, node, enemy_list) ==
    LET near == {other \in Range(g.nodes) :
                    ~(other = node \/ distance_to(node, other) > EDGE_RADIUS)}
    IN  add_edges(g,
            {[u |-> other, v |-> node, dist |-> distance_to(node, other), detected |-> FALSE] :
                other \in {o \in near : is_legal_leg(o, node, enemy_list)}}
            \cup
            {[u |-> node, v |-> other, dist |-> distance_to(node, other), detected |-> FALSE] :
                other \in {o \in near : is_legal_leg(node, o, enemy_list)}})

\* the loop over graph.nodes for one node without the test against EDGE_RADIUS
connect_node_stage3_any_distance(g, node, enemy_list) ==
    LET near == {other \in Range(g.nodes) :
                    /\ other # node
                    /\ is_leg_legal_only_no_entrances(node, other, enemy_list)}
    IN  add_edges(g,
            {[u |-> other, v |-> node, dist |-> distance_to(node, other),
              detected |-> ~is_leg_legal_only_radars(other, node, enemy_list)] : other \in near}
            \cup
            {[u |-> node, v |-> other, dist |-> distance_to(node, other),
              detected |-> ~is_leg_legal_only_radars(node, other, enemy_list)] : other \in near})

\* the loop over graph.nodes for one node with detected=False on every edge
connect_node_stage3_unflagged(g, node, enemy_list) ==
    LET near == {other \in Range(g.nodes) :
                    /\ ~(other = node \/ distance_to(node, other) > EDGE_RADIUS)
                    /\ is_leg_legal_only_no_entrances(node, other, enemy_list)}
    IN  add_edges(g,
            {[u |-> other, v |-> node, dist |-> distance_to(node, other),
              detected |-> FALSE] : other \in near}
            \cup
            {[u |-> node, v |-> other, dist |-> distance_to(node, other),
              detected |-> FALSE] : other \in near})

\* solution_stage3.add_nodes_inside_radars, the loop over graph.nodes for one node
connect_node_stage3(g, node, enemy_list) ==
    LET near == {other \in Range(g.nodes) :
                    /\ ~(other = node \/ distance_to(node, other) > EDGE_RADIUS)
                    /\ is_leg_legal_only_no_entrances(node, other, enemy_list)}
    IN  add_edges(g,
            {[u |-> other, v |-> node, dist |-> distance_to(node, other),
              detected |-> ~is_leg_legal_only_radars(other, node, enemy_list)] : other \in near}
            \cup
            {[u |-> node, v |-> other, dist |-> distance_to(node, other),
              detected |-> ~is_leg_legal_only_radars(node, other, enemy_list)] : other \in near})

\* solution_stage2.add_nodes_inside_radars, given the draws
RECURSIVE add_nodes_inside_radars_stage2(_, _, _)
add_nodes_inside_radars_stage2(g, new_nodes, enemy_list) ==
    IF new_nodes = <<>> THEN g
    ELSE LET h == add_node(g, Head(new_nodes))
         IN  add_nodes_inside_radars_stage2(
                 connect_node_stage2(h, Head(new_nodes), enemy_list),
                 Tail(new_nodes), enemy_list)

\* solution_stage3.add_nodes_inside_radars, given the draws
RECURSIVE add_nodes_inside_radars_stage3(_, _, _)
add_nodes_inside_radars_stage3(g, new_nodes, enemy_list) ==
    IF new_nodes = <<>> THEN g
    ELSE LET h == add_node(g, Head(new_nodes))
         IN  add_nodes_inside_radars_stage3(
                 connect_node_stage3(h, Head(new_nodes), enemy_list),
                 Tail(new_nodes), enemy_list)

(***************************************************************************)
(* The layers graph of solution_stage3.  max_detection is the exact        *)
(* fraction distance * percentage / 100; it is carried as its numerator    *)
(* (hundredths), and layer <= max_detection is layer * 100 <= numerator.   *)
(* A node f'{node}_{layer}' is the pair of the node's string and the       *)
(* layer; s.split('_')[0] is its first part.                               *)
(***************************************************************************)
layer_key(node, layer) == [name |-> coordinate_str(node), layer |-> layer]
split_0(s) == s.name

\* DiGraph.add_edge on the layers graph: its edges carry dist only
layer_edge(u, v, dist) == [u |-> u, v |-> v, dist |-> dist]

\* add_legal_edge: the edges its while loop adds, from layer on
RECURSIVE add_legal_edge_from(_, _, _, _, _, _)
add_legal_edge_from(layer, max_detection, quanta, start, end, dist) ==
    IF ~(layer * 100 <= max_detection) THEN {}
    ELSE {layer_edge(layer_key(start, layer), layer_key(end, layer), dist)}
         \cup add_legal_edge_from(layer + quanta, max_detection, quanta, start, end, dist)

\* the edge inside the first layer only
add_legal_edge_first_layer(max_detection, quanta, start, end, dist) ==
    {layer_edge(layer_key(start, 0), layer_key(end, 0), dist)}

add_legal_edge(max_detection, quanta, start, end, dist) ==
    add_legal_edge_from(0, max_detection, quanta, start, end, dist)

\* the detection of an edge rounded down to the quanta
edge_detection_floor(quanta, dist) == (dist \div quanta) * quanta

\* the detection of an edge taken to the next multiple of the quanta, also
\* when it is a multiple already
edge_detection_next(quanta, dist) == (dist \div quanta + 1) * quanta

\* add_detected_edge: the detection of an edge, rounded up to the quanta
edge_detection(quanta, dist) ==
    IF dist % quanta > 0 THEN (dist \div quanta + 1) * quanta ELSE dist

\* add_detected_edge: the edges its while loop adds, from layer on
RECURSIVE add_detected_edge_from(_, _, _, _, _, _)
add_detected_edge_from(layer, max_detection, quanta, start, end, dist) ==
    LET detection == edge_detection(quanta, dist)
    IN  IF ~((layer + detection) * 100 <= max_detection) THEN {}
        ELSE {layer_edge(layer_key(start, layer), layer_key(end, layer + detection), dist)}
             \cup add_detected_edge_from(layer + quanta, max_detection, quanta, start, end, dist)

\* the edges of a detected leg from every layer up to max_detection, without
\* the test of the layer they arrive in
add_detected_edge_unpruned(max_detection, quanta, start, end, dist) ==
    {layer_edge(layer_key(start, quanta * i),
                layer_key(end, quanta * i + edge_detection(quanta, dist)), dist) :
        i \in 0..(max_detection \div (100 * quanta))}

add_detected_edge(max_detection, quanta, start, end, dist) ==
    add_detected_edge_from(0, max_detection, quanta, start, end, dist)

\* the edges between the copies of the target, from each layer to the one below
add_target_edges_downwards(layers, tgt) ==
    {layer_edge(layer_key(tgt, layers[i + 1]), layer_key(tgt, layers[i]), 0) :
        i \in 1..(Len(layers) - 1)}

\* the edge between the first two copies of the target only
add_target_edges_first_pair(layers, tgt) ==
    {layer_edge(layer_key(tgt, layers[i]), layer_key(tgt, layers[i + 1]), 0) :
        i \in {j \in {1} : j < Len(layers)}}

\* the edges between the copies of the target, each charged the step it climbs
add_target_edges_charged(layers, tgt) ==
    {layer_edge(layer_key(tgt, layers[i]), layer_key(tgt, layers[i + 1]),
                layers[i + 1] - layers[i]) :
        i \in 1..(Len(layers) - 1)}

\* add_target_edges: zip(layers, layers[1:])
add_target_edges(layers, tgt) ==
    {layer_edge(layer_key(tgt, layers[i]), layer_key(tgt, layers[i + 1]), 0) :
        i \in 1..(Len(layers) - 1)}

\* build_layers_graph: max_detection (numerator) and the list of layers
max_detection_of(src, tgt, max_detection_percentage) ==
    distance_to(src, tgt) * max_detection_percentage

layers_of(max_detection, quanta) ==
    [i \in 1..((max_detection \div (100 * quanta)) + 1) |-> quanta * (i - 1)]

\* build_layers_graph: the layers graph, its source and its target
build_layers_graph(g, src, tgt, max_detection_percentage, quanta) ==
    LET max_detection == max_detection_of(src, tgt, max_detection_percentage)
        layers == layers_of(max_detection, quanta)
        declared == {layer_key(node, layers[i]) : node \in Range(g.nodes), i \in DOMAIN layers}
        edges == UNION {IF e.detected
                        THEN add_detected_edge(max_detection, quanta, e.u, e.v, e.dist)
                        ELSE add_legal_edge(max_detection, quanta, e.u, e.v, e.dist)
                        : e \in g.edges}
                 \cup add_target_edges(layers, tgt)
    IN  [nodes |-> declared \cup {e.u : e \in edges} \cup {e.v : e \in edges},
         edges |-> edges,
         source |-> layer_key(src, 0),
         target |-> layer_key(tgt, layers[Len(layers)])]

\* the decoded path with the duplicates of the target left in
drop_target_duplicates_skipped(p) == [error |-> "none", path |-> p]

\* retrieve_path_from_layered_path, the while loop; path[-2] of a list of one
\* element raises IndexError (the result is the error, if any, and the path)
RECURSIVE drop_target_duplicates(_)
drop_target_duplicates(p) ==
    IF Len(p) < 2 THEN [error |-> "IndexError", path |-> p]
    ELSE IF p[Len(p)] = p[Len(p) - 1] THEN drop_target_duplicates(SubSeq(p, 1, Len(p) - 1))
    ELSE [error |-> "none", path |-> p]

\* retrieve_path_from_layered_path
retrieve_path_from_layered_path(layered_path) ==
    drop_target_duplicates([i \in DOMAIN layered_path |-> from_str(split_0(layered_path[i]))])

(***************************************************************************)
(* nx.shortest_path(G, source, target, weight='dist'): the paths of least  *)
(* total dist; none stands for NetworkXNoPath.                             *)
(***************************************************************************)
Unreachable == 1000000

RECURSIVE Relaxed(_, _, _)
Relaxed(dist, in_edges, nodes) ==
    LET next == [v \in nodes |->
                    Min({dist[v]} \cup {dist[e.u] + e.dist :
                                         e \in {f \in in_edges[v] : dist[f.u] < Unreachable}})]
    IN  IF next = dist THEN dist ELSE Relaxed(next, in_edges, nodes)

RECURSIVE PathsTo(_, _, _, _)
PathsTo(dist, in_edges, src, v) ==
    IF v = src THEN {<<src>>}
    ELSE UNION {{Append(p, v) : p \in PathsTo(dist, in_edges, src, e.u)} :
                 e \in {f \in in_edges[v] :
                          dist[f.u] < Unreachable /\ dist[f.u] + f.dist = dist[v]}}

\* nx.shortest_path without weight='dist': the paths of fewest edges
shortest_path_unweighted(nodes, edges, src, tgt) ==
    LET hops == {[e EXCEPT !.dist = 1] : e \in edges}
        in_edges == [v \in nodes |-> {e \in hops : e.v = v}] @@ <<>>
        dist == Relaxed([v \in nodes |-> IF v = src THEN 0 ELSE Unreachable], in_edges, nodes)
    IN  IF dist[tgt] >= Unreachable THEN {} ELSE PathsTo(dist, in_edges, src, tgt)

shortest_path(nodes, edges, src, tgt) ==
    LET in_edges == [v \in nodes |-> {e \in edges : e.v = v}] @@ <<>>
        dist == Relaxed([v \in nodes |-> IF v = src THEN 0 ELSE Unreachable], in_edges, nodes)
    IN  IF dist[tgt] >= Unreachable THEN {} ELSE PathsTo(dist, in_edges, src, tgt)

(***************************************************************************)
(* Scenarios.                                                              *)
(***************************************************************************)
Sources == {<<0, 0>>}
Targets == {<<110, 0>>, <<80, 0>>, <<0, 0>>}

Catalogue ==
    { Radar(<<20, 0>>, 3),
      ObservationPost(<<55, 0>>, 28),
      AsteroidsZone(<< <<22, 2>>, <<35, 20>>, <<22, 20>> >>),
      AsteroidsZone(<< <<55, 20>>, <<50, -20>>, <<60, -20>> >>) }

RECURSIVE EnemyLists(_)
EnemyLists(n) ==
    IF n = 0 THEN {<<>>}
    ELSE EnemyLists(n - 1)
         \cup {Append(l, e) : l \in {m \in EnemyLists(n - 1) : Len(m) = n - 1}, e \in Catalogue}

(***************************************************************************)
(* The queries of SamplingSpec; in Spec they do not run.                   *)
(***************************************************************************)
Queries == {1, 2}

\* no Radar object yet
NoRadar == [type |-> "none", center |-> <<0, 0>>, radius |-> 0, boundary |-> <<>>]

SamplerIdle ==
    /\ descriptor = [q \in Queries |-> [center |-> <<0, 0>>, radius |-> 0]]
    /\ query_radar = [q \in Queries |-> NoRadar]
    /\ sampler_pc = [q \in Queries |-> "idle"]
    /\ random_state = 0
    /\ x = [q \in Queries |-> 0]
    /\ point = [q \in Queries |-> <<>>]

(***************************************************************************)
(* The users of submission_app; in Spec and SamplingSpec they send no      *)
(* request.                                                                *)
(***************************************************************************)
Users == {"user1", "user2"}

\* no response yet
NoMessage == [style |-> "none", text |-> "none"]

SubmissionIdle ==
    /\ submissions_file = <<>>
    /\ clock = 0
    /\ request_pc = [u \in Users |-> "idle"]
    /\ request_path = [u \in Users |-> <<>>]
    /\ submissions = [u \in Users |-> <<>>]
    /\ submit_message = [u \in Users |-> NoMessage]
    /\ saved = [u \in Users |-> {}]

(***************************************************************************)
(* calculate_path of the three stages, step by step.                       *)
(***************************************************************************)
Init ==
    /\ variant \in 1..3
    /\ source \in Sources
    /\ target \in Targets
    /\ enemies \in EnemyLists(MaxEnemies)
    /\ pc = "start"
    /\ graph = EmptyGraph
    /\ layers_graph = [nodes |-> {}, edges |-> {}, source |-> layer_key(source, 0),
                       target |-> layer_key(target, 0)]
    /\ path = <<>>
    /\ raised = "none"
    /\ SamplerIdle
    /\ SubmissionIdle

\* graph.add_node(source); graph.add_node(target); add_enemies_to_graph(graph, enemies)
AddEnemies ==
    /\ pc = "start"
    /\ graph' = LET g == add_node(add_node(EmptyGraph, source), target)
                IN  IF variant = 1 THEN add_enemies_to_graph_stage1(g, enemies)
                    ELSE add_enemies_to_graph(g, enemies)
    /\ pc' = "seeded"
    /\ UNCHANGED <<sampler_vars, submission_vars, variant, source, target, enemies, layers_graph, path, raised>>

\* for node1, node2 in combinations(graph.nodes, 2): ...
ConnectPairs ==
    /\ pc = "seeded"
    /\ graph' = IF variant = 1 THEN connect_stage1(graph, enemies)
                ELSE IF variant = 2 THEN connect_stage2(graph, enemies)
                ELSE connect_stage3(graph, enemies)
    /\ pc' = IF variant = 1 THEN "search" ELSE "connected"
    /\ UNCHANGED <<sampler_vars, submission_vars, variant, source, target, enemies, layers_graph, path, raised>>

\* add_nodes_inside_radars(graph, enemies)
AddNodesInsideRadars ==
    /\ pc = "connected"
    /\ IF Len(Radars(enemies)) = 0
       THEN graph' = graph
       ELSE \E new_nodes \in NewNodes(Radars(enemies), samples_per_radar(enemies)) :
               graph' = IF variant = 2
                        THEN add_nodes_inside_radars_stage2(graph, new_nodes, enemies)
                        ELSE add_nodes_inside_radars_stage3(graph, new_nodes, enemies)
    /\ pc' = IF variant = 2 THEN "search" ELSE "sampled"
    /\ UNCHANGED <<sampler_vars, submission_vars, variant, source, target, enemies, layers_graph, path, raised>>

\* layers_graph, source, target = build_layers_graph(graph, source, target)
BuildLayersGraph ==
    /\ pc = "sampled"
    /\ layers_graph' = build_layers_graph(graph, source, target, DefaultPercentage, DefaultQuanta)
    /\ pc' = "layered"
    /\ UNCHANGED <<sampler_vars, submission_vars, variant, source, target, enemies, graph, path, raised>>

\* stages 1 and 2: nx.shortest_path(graph, source, target, weight='dist'),
\* except nx.NetworkXNoPath: path = []
ComputePath ==
    /\ pc = "search"
    /\ LET found == shortest_path(Range(graph.nodes), graph.edges, source, target)
       IN  IF found = {} THEN path' = <<>> ELSE path' \in found
    /\ pc' = "done"
    /\ UNCHANGED <<sampler_vars, submission_vars, variant, source, target, enemies, graph, layers_graph, raised>>

\* the search and the decoding without the except clause
ComputeLayeredPath_no_except ==
    /\ pc = "layered"
    /\ LET found == shortest_path(layers_graph.nodes, layers_graph.edges,
                                  layers_graph.source, layers_graph.target)
       IN  IF found = {}
           THEN /\ path' = path
                /\ pc' = "raised"
                /\ raised' = "NetworkXNoPath"
           ELSE \E layered_path \in found :
                   LET decoded == retrieve_path_from_layered_path(layered_path)
                   IN  IF decoded.error # "none"
                       THEN /\ path' = path
                            /\ pc' = "raised"
                            /\ raised' = decoded.error
                       ELSE /\ path' = decoded.path
                            /\ pc' = "done"
                            /\ raised' = raised
    /\ UNCHANGED <<sampler_vars, submission_vars, variant, source, target, enemies, graph, layers_graph>>

\* stage 3: nx.shortest_path(layers_graph, source, target, weight='dist') and
\* retrieve_path_from_layered_path(path), except nx.NetworkXNoPath: path = []
ComputeLayeredPath ==
    /\ pc = "layered"
    /\ LET found == shortest_path(layers_graph.nodes, layers_graph.edges,
                                  layers_graph.source, layers_graph.target)
       IN  IF found = {}
           THEN /\ path' = <<>>
                /\ pc' = "done"
                /\ raised' = raised
           ELSE \E layered_path \in found :
                   LET decoded == retrieve_path_from_layered_path(layered_path)
                   IN  IF decoded.error # "none"
                       THEN /\ path' = path
                            /\ pc' = "raised"
                            /\ raised' = decoded.error
                       ELSE /\ path' = decoded.path
                            /\ pc' = "done"
                            /\ raised' = raised
    /\ UNCHANGED <<sampler_vars, submission_vars, variant, source, target, enemies, graph, layers_graph>>

Next ==
    \/ AddEnemies
    \/ ConnectPairs
    \/ AddNodesInsideRadars
    \/ BuildLayersGraph
    \/ ComputePath
    \/ ComputeLayeredPath

Spec == Init /\ [][Next]_vars

(***************************************************************************)
(* sample_in_polygon step by step, for concurrent queries.  Each query     *)
(* builds the Radar of its descriptor and calls sample_in_polygon for      *)
(* radar.circle.  random.uniform(a, b) is a + (b - a) * random(), where    *)
(* random() steps the one generator of the random module; the generator    *)
(* is a congruential one of RandomStates states that yields quarters.      *)
(* Point(c).buffer(radius) is the empty polygon for a radius <= 0; its     *)
(* bounds are () or four nan, depending on the build of shapely: the       *)
(* unpacking raises ValueError, or every draw is nan and is rejected.      *)
(***************************************************************************)
\* at most this many states of the generator
RandomStates == 16

\* the radars of the scenario descriptors: center and radius
Descriptors == {[center |-> <<20, 0>>, radius |-> r] : r \in {-1, 0, 2}}

\* no calculate_path of Spec runs
PlannerIdle ==
    /\ variant = 2
    /\ source = <<0, 0>>
    /\ target = <<0, 0>>
    /\ enemies = <<>>
    /\ pc = "idle"
    /\ graph = EmptyGraph
    /\ layers_graph = [nodes |-> {}, edges |-> {}, source |-> layer_key(source, 0),
                       target |-> layer_key(target, 0)]
    /\ path = <<>>
    /\ raised = "none"

\* the generator after one call of random()
random_step(state) == (5 * state + 3) % RandomStates

\* the value of random() in the state, in quarters
random_random(state) == state % 5

\* random.uniform(a, b)
random_uniform(a, b, state) == a + ((b - a) * random_random(state)) \div 4

\* radar.circle is the empty polygon
circle_is_empty(r) == r.radius <= 0

\* polygon.contains(Point(x, y)) for polygon = radar.circle
polygon_contains(r, p) ==
    /\ ~circle_is_empty(r)
    /\ Dot(Sub(p, r.center), Sub(p, r.center)) < r.radius * r.radius

SamplingInit ==
    /\ PlannerIdle
    /\ SubmissionIdle
    /\ descriptor \in [Queries -> Descriptors]
    /\ query_radar = [q \in Queries |-> NoRadar]
    /\ sampler_pc \in [Queries -> {"construct", "idle"}]
    /\ random_state = 0
    /\ x = [q \in Queries |-> 0]
    /\ point = [q \in Queries |-> <<>>]

\* Radar(center, radius) of the descriptor: __init__ stores center and radius
\* and buffers the circle, whatever the radius
Construct(q) ==
    /\ sampler_pc[q] = "construct"
    /\ query_radar' = [query_radar EXCEPT
                          ![q] = Radar(descriptor[q].center, descriptor[q].radius)]
    /\ sampler_pc' = [sampler_pc EXCEPT ![q] = "bounds"]
    /\ UNCHANGED <<planner_vars, submission_vars, descriptor, random_state, x, point>>

\* left, bottom, right, top = polygon.bounds
SampleBounds(q) ==
    /\ sampler_pc[q] = "bounds"
    /\ \/ sampler_pc' = [sampler_pc EXCEPT ![q] = "uniform_x"]
       \/ /\ circle_is_empty(query_radar[q])
          /\ sampler_pc' = [sampler_pc EXCEPT ![q] = "raised"]
    /\ UNCHANGED <<planner_vars, submission_vars, descriptor, query_radar, random_state, x, point>>

\* x = random.uniform(left, right); nan (kept as 0) for the empty polygon
UniformX(q) ==
    /\ sampler_pc[q] = "uniform_x"
    /\ x' = [x EXCEPT ![q] =
                IF circle_is_empty(query_radar[q]) THEN 0
                ELSE random_uniform(query_radar[q].center[1] - query_radar[q].radius,
                                    query_radar[q].center[1] + query_radar[q].radius,
                                    random_state)]
    /\ random_state' = random_step(random_state)
    /\ sampler_pc' = [sampler_pc EXCEPT ![q] = "uniform_y"]
    /\ UNCHANGED <<planner_vars, submission_vars, descriptor, query_radar, point>>

\* y = random.uniform(bottom, top); if polygon.contains(Point(x, y)): return
UniformY(q) ==
    /\ sampler_pc[q] = "uniform_y"
    /\ random_state' = random_step(random_state)
    /\ LET y == random_uniform(query_radar[q].center[2] - query_radar[q].radius,
                               query_radar[q].center[2] + query_radar[q].radius,
                               random_state)
       IN  IF polygon_contains(query_radar[q], <<x[q], y>>)
           THEN /\ point' = [point EXCEPT ![q] = <<x[q], y>>]
                /\ sampler_pc' = [sampler_pc EXCEPT ![q] = "returned"]
           ELSE /\ point' = point
                /\ sampler_pc' = [sampler_pc EXCEPT ![q] = "uniform_x"]
    /\ UNCHANGED <<planner_vars, submission_vars, descriptor, query_radar, x>>

\* one step of the thread of query q
QueryStep(q) == Construct(q) \/ SampleBounds(q) \/ UniformX(q) \/ UniformY(q)

SamplingNext == \E q \in Queries : QueryStep(q)

\* every thread that can take a step is scheduled in the end
SamplingSpec ==
    SamplingInit /\ [][SamplingNext]_vars /\ \A q \in Queries : WF_vars(QueryStep(q))

(***************************************************************************)
(* Properties of the returned path.                                        *)
(***************************************************************************)
\* calculate_path has returned
Returned == pc = "done"

\* C1: a non-empty returned path of any of the three planners starts at the
\* source, ends at the target, and each of its legs is legal for every
\* asteroids zone and every observation post.
C1_PathAvoidsNoEntrances ==
    (Returned /\ path # <<>>) =>
        /\ path[1] = source
        /\ path[Len(path)] = target
        /\ \A i \in 1..(Len(path) - 1) : \A k \in DOMAIN enemies :
               enemies[k].type # "Radar" => enemy_is_legal_leg(enemies[k], path[i], path[i + 1])

\* a planner returns a path that goes around a zone or post lying on the
\* straight line from the source to the target
C1_Witness ==
    /\ Returned
    /\ Len(path) >= 3
    /\ ~is_leg_legal_only_no_entrances(source, target, enemies)

(***************************************************************************)
(* The detection budget of solution_stage3.                                *)
(***************************************************************************)
\* the legs of a path have edges in the base graph
LegsAreEdges(g, p) ==
    \A i \in 1..(Len(p) - 1) : \E e \in g.edges : e.u = p[i] /\ e.v = p[i + 1]

\* the edge of the base graph from u to v
edge_of(g, u, v) == CHOOSE e \in g.edges : e.u = u /\ e.v = v

\* the sum of dist over the legs of p, from leg i on, that are flagged detected
RECURSIVE detected_distance_from(_, _, _)
detected_distance_from(g, p, i) ==
    IF i >= Len(p) THEN 0
    ELSE (IF edge_of(g, p[i], p[i + 1]).detected THEN edge_of(g, p[i], p[i + 1]).dist ELSE 0)
         + detected_distance_from(g, p, i + 1)

detected_distance(g, p) == detected_distance_from(g, p, 1)

\* C2: a non-empty path returned by solution_stage3 follows edges of the base
\* graph, and the sum of dist over its legs flagged detected is at most
\* max_detection = 0.1 * distance(source, target) (hence within one quantum
\* of it).
C2_DetectedWithinBudget ==
    (Returned /\ variant = 3 /\ path # <<>>) =>
        /\ LegsAreEdges(graph, path)
        /\ detected_distance(graph, path) * 100
               <= max_detection_of(source, target, DefaultPercentage)

\* solution_stage3 returns a path that spends some of the budget
C2_Witness ==
    /\ Returned
    /\ variant = 3
    /\ path # <<>>
    /\ LegsAreEdges(graph, path)
    /\ detected_distance(graph, path) > 0

(***************************************************************************)
(* The budget-constrained problem, solved by relaxation over the pairs of  *)
(* a node and the budget allowed so far (no layers, no target chain).      *)
(***************************************************************************)
\* the edges of the base graph with what each costs of the budget: its dist
\* if it is flagged detected
exact_cost(g) ==
    {[u |-> e.u, v |-> e.v, dist |-> e.dist, cost |-> IF e.detected THEN e.dist ELSE 0] :
        e \in g.edges}

\* the same with the cost of a detected edge rounded up to a multiple of quanta
quantised_cost(g, quanta) ==
    {[u |-> e.u, v |-> e.v, dist |-> e.dist,
      cost |-> IF e.detected THEN ((e.dist + quanta - 1) \div quanta) * quanta ELSE 0] :
        e \in g.edges}

\* best[<<v, b>>]: the least total dist of a route to v whose costs sum to at most b
RECURSIVE Cheapest(_, _, _)
Cheapest(best, costed, keys) ==
    LET next == [k \in keys |->
                    Min({best[k]} \cup
                        {best[<<e.u, k[2] - e.cost>>] + e.dist :
                            e \in {f \in costed : /\ f.v = k[1]
                                                  /\ f.cost <= k[2]
                                                  /\ best[<<f.u, k[2] - f.cost>>] < Unreachable}})]
    IN  IF next = best THEN best ELSE Cheapest(next, costed, keys)

\* the least total dist of a route from src to tgt within the budget cap
constrained_optimum(costed, nodes, src, tgt, cap) ==
    Cheapest([k \in nodes \X (0..cap) |-> IF k[1] = src THEN 0 ELSE Unreachable],
             costed, nodes \X (0..cap))[<<tgt, cap>>]

\* max_detection in whole tenths: sums of dist are whole tenths
budget_cap == max_detection_of(source, target, DefaultPercentage) \div 100

RECURSIVE path_length_from(_, _, _)
path_length_from(g, p, i) ==
    IF i >= Len(p) THEN 0
    ELSE edge_of(g, p[i], p[i + 1]).dist + path_length_from(g, p, i + 1)

\* the total dist of a path of the base graph
path_length(g, p) == path_length_from(g, p, 1)

\* C3 as stated: the path solution_stage3 returns is a shortest one among the
\* routes of the base graph whose detected edges sum, by their dist, to at
\* most max_detection, and it is empty only if there is no such route.
C3_ExactOptimum ==
    (Returned /\ variant = 3) =>
        LET best == constrained_optimum(exact_cost(graph), Range(graph.nodes),
                                        source, target, budget_cap)
        IN  IF path = <<>> THEN best = Unreachable
            ELSE LegsAreEdges(graph, path) /\ path_length(graph, path) = best

\* C3 (amended): the path solution_stage3 returns is a shortest one among the
\* routes of the base graph whose detected edges sum, each dist rounded up to
\* a multiple of the quantum, to at most max_detection, and it is empty only
\* if there is no such route.
C3_QuantisedOptimum ==
    (Returned /\ variant = 3) =>
        LET best == constrained_optimum(quantised_cost(graph, DefaultQuanta),
                                        Range(graph.nodes), source, target, budget_cap)
        IN  IF path = <<>> THEN best = Unreachable
            ELSE LegsAreEdges(graph, path) /\ path_length(graph, path) = best

\* solution_stage3 returns a path through a radar that is shorter than every
\* route without a detected edge
C3_Witness ==
    /\ Returned
    /\ variant = 3
    /\ path # <<>>
    /\ LegsAreEdges(graph, path)
    /\ detected_distance(graph, path) > 0
    /\ path_length(graph, path)
           < constrained_optimum(exact_cost(graph), Range(graph.nodes), source, target, 0)

(***************************************************************************)
(* Variants 1 and 2: no detection at all.                                  *)
(***************************************************************************)
\* the position of a node in graph.nodes
node_index(g, n) == CHOOSE i \in DOMAIN g.nodes : g.nodes[i] = n

\* the nodes the graph had before add_nodes_inside_radars
seed_nodes ==
    Range(add_enemies_to_graph(add_node(add_node(EmptyGraph, source), target), enemies).nodes)

\* C4: in solution_stage1 and solution_stage2 every edge of the graph, taken
\* from its start to its end, is legal for all enemies, radars included, also
\* the edge inserted for the direction of a pair that was not tested; so
\* every leg of a non-empty returned path is legal in its direction of travel.
C4_LegsLegalInDirectionOfTravel ==
    (Returned /\ variant \in {1, 2}) =>
        /\ \A e \in graph.edges : is_legal_leg(e.u, e.v, enemies)
        /\ LegsAreEdges(graph, path)
        /\ \A i \in 1..(Len(path) - 1) : is_legal_leg(path[i], path[i + 1], enemies)

\* solution_stage2 returns a path around a radar, one of its legs runs
\* against the direction in which the pair was tested, and the graph holds an
\* edge against that direction from or to a seed node inside a radar's circle
C4_Witness ==
    /\ Returned
    /\ variant = 2
    /\ ~is_leg_legal_only_radars(source, target, enemies)
    /\ \E i \in 1..(Len(path) - 1) :
          node_index(graph, path[i]) > node_index(graph, path[i + 1])
    /\ \E e \in graph.edges : \E k \in DOMAIN enemies :
          /\ {e.u, e.v} \subseteq seed_nodes
          /\ node_index(graph, e.u) > node_index(graph, e.v)
          /\ enemies[k].type = "Radar"
          /\ radar_intersection(enemies[k], e.u, e.v) # <<>>
          /\ \E n \in {e.u, e.v} :
                Dot(Sub(n, enemies[k].center), Sub(n, enemies[k].center))
                    < enemies[k].radius * enemies[k].radius

(***************************************************************************)
(* No route, and the degenerate queries.                                   *)
(***************************************************************************)
\* calculate_path has ended, by a return or by an exception
Ended == pc \in {"done", "raised"}

\* the nodes that a walk along edges reaches from the nodes of reached
RECURSIVE ReachableFrom(_, _)
ReachableFrom(reached, edges) ==
    LET next == reached \cup {e.v : e \in {f \in edges : f.u \in reached}}
    IN  IF next = reached THEN reached ELSE ReachableFrom(next, edges)

\* the base graph holds a route from src to tgt
has_route(g, src, tgt) == tgt \in ReachableFrom({src}, g.edges)

\* C5: when the constructed graph holds no route from the source to the
\* target, each of the three planners ends by returning the empty path, and
\* raises nothing.
C5_NoRouteGivesEmptyPath ==
    (Ended /\ ~has_route(graph, source, target)) =>
        /\ Returned
        /\ path = <<>>
        /\ raised = "none"

\* solution_stage3 returns the empty path for a target that lies inside an
\* observation post
C5_Witness ==
    /\ Returned
    /\ variant = 3
    /\ ~has_route(graph, source, target)
    /\ path = <<>>
    /\ \E k \in DOMAIN enemies :
          /\ enemies[k].type = "ObservationPost"
          /\ ~enemy_is_legal_leg(enemies[k], target, target)

\* C6: a query whose source equals its target ends, in each of the three
\* planners, by returning the single-node path [source], and raises nothing.
C6_SourceEqualsTarget ==
    (Ended /\ source = target) =>
        /\ Returned
        /\ path = <<source>>
        /\ raised = "none"

\* C7 as stated: with no enemies each of the three planners returns exactly
\* the two points [source, target].
C7_NoEnemiesTwoPoints ==
    (Returned /\ enemies = <<>>) => path = <<source, target>>

\* C7 (amended): with no enemies and a source different from the target, each
\* of the three planners ends by returning exactly [source, target].
C7_NoEnemiesDistinctEnds ==
    (Ended /\ enemies = <<>> /\ source # target) =>
        /\ Returned
        /\ path = <<source, target>>

\* solution_stage3 returns [source, target] with no enemies, decoded from a
\* layered path that climbs the copies of the target
C7_Witness ==
    /\ Returned
    /\ variant = 3
    /\ enemies = <<>>
    /\ source # target
    /\ path = <<source, target>>
    /\ layers_graph.target.layer > 0

(***************************************************************************)
(* The budget fraction of build_layers_graph.                              *)
(***************************************************************************)
\* the values of max_detection_percentage compared, in percent
Fractions == {4, 10, 20}

\* the base graph is complete: add_nodes_inside_radars has returned
BaseGraphBuilt == variant = 3 /\ pc = "sampled"

\* the paths a query of the base graph with the budget fraction can return
budgeted_paths(g, src, tgt, max_detection_percentage) ==
    LET lg == build_layers_graph(g, src, tgt, max_detection_percentage, DefaultQuanta)
        decoded == {retrieve_path_from_layered_path(p) :
                       p \in shortest_path(lg.nodes, lg.edges, lg.source, lg.target)}
    IN  {d.path : d \in {c \in decoded : c.error = "none"}}

\* C8: for one base graph and budget fractions f1 <= f2, if the query with
\* f1 yields a path then the query with f2 yields a path, and none that is
\* longer.
C8_BudgetMonotone ==
    BaseGraphBuilt =>
        LET paths == [f \in Fractions |-> budgeted_paths(graph, source, target, f)] @@ <<>>
        IN  \A f1, f2 \in Fractions :
                (f1 <= f2 /\ paths[f1] # {}) =>
                    /\ paths[f2] # {}
                    /\ \A p1 \in paths[f1] : \A p2 \in paths[f2] :
                           path_length(graph, p2) <= path_length(graph, p1)

\* a larger fraction yields a path through a radar that is shorter than the
\* path of a smaller fraction
C8_Witness ==
    /\ BaseGraphBuilt
    /\ budgeted_paths(graph, source, target, 4) # {}
    /\ \E p1 \in budgeted_paths(graph, source, target, 4) :
       \E p2 \in budgeted_paths(graph, source, target, 20) :
           path_length(graph, p2) < path_length(graph, p1)

(***************************************************************************)
(* The layers graph.                                                       *)
(***************************************************************************)
\* build_layers_graph has returned
LayersGraphBuilt == variant = 3 /\ pc \in {"layered", "done", "raised"}

\* an edge between two copies of the target
target_chain_edge(e) ==
    e.u.name = coordinate_str(target) /\ e.v.name = coordinate_str(target)

\* C9: every edge of the layers graph leads from a layer to the same or a
\* higher layer; an edge between two copies of the target has dist 0 and
\* leads from a layer to the next one, never down.
C9_LayersNeverDecrease ==
    LayersGraphBuilt =>
        /\ \A e \in layers_graph.edges : e.u.layer <= e.v.layer
        /\ \A e \in layers_graph.edges :
               target_chain_edge(e) => (e.dist = 0 /\ e.v.layer = e.u.layer + DefaultQuanta)

\* a layers graph with an edge that climbs between two different nodes and
\* with two or more links between the copies of the target
C9_Witness ==
    /\ LayersGraphBuilt
    /\ \E e \in layers_graph.edges : e.u.name # e.v.name /\ e.u.layer < e.v.layer
    /\ Cardinality({e \in layers_graph.edges : target_chain_edge(e)}) >= 2

\* the layers 0, q, 2q, ... up to max_detection
layer_values(max_detection, quanta) ==
    {layer \in 0..(max_detection \div 100) : layer % quanta = 0}

\* ceil(d / q) * q
ceil_to_quanta(d, q) == (0 - ((0 - d) \div q)) * q

\* the copies that the layer expansion owes to the edge e of the base graph
expansion(e, max_detection, quanta) ==
    IF e.detected
    THEN {layer_edge(layer_key(e.u, layer),
                     layer_key(e.v, layer + ceil_to_quanta(e.dist, quanta)), e.dist) :
             layer \in {l \in layer_values(max_detection, quanta) :
                           (l + ceil_to_quanta(e.dist, quanta)) * 100 <= max_detection}}
    ELSE {layer_edge(layer_key(e.u, layer), layer_key(e.v, layer), e.dist) :
             layer \in layer_values(max_detection, quanta)}

\* C10: the edges of the layers graph, the links between the copies of the
\* target aside, are exactly these: for a base edge (u, v) not flagged
\* detected, (u, L) -> (v, L) with its dist in every layer L <= max_detection;
\* for a base edge flagged detected of length d, (u, L) -> (v, L + ceil(d/q)*q)
\* with dist d for the layers L with L + ceil(d/q)*q <= max_detection.
C10_LayerExpansion ==
    LayersGraphBuilt =>
        {e \in layers_graph.edges : ~target_chain_edge(e)}
            = UNION {expansion(e, max_detection_of(source, target, DefaultPercentage),
                               DefaultQuanta) : e \in graph.edges}

\* a layers graph from a base graph with a detected edge whose length is no
\* multiple of the quantum and fits the budget, a detected edge whose length
\* is one, and a detected edge that fits in no layer
C10_Witness ==
    /\ LayersGraphBuilt
    /\ layers_graph.target.layer > 0
    /\ \E e \in graph.edges :
          /\ e.detected
          /\ e.dist % DefaultQuanta # 0
          /\ expansion(e, max_detection_of(source, target, DefaultPercentage),
                       DefaultQuanta) # {}
    /\ \E e \in graph.edges :
          /\ e.detected
          /\ e.dist % DefaultQuanta = 0
          /\ expansion(e, max_detection_of(source, target, DefaultPercentage),
                       DefaultQuanta) # {}
    /\ \E e \in graph.edges :
          /\ e.detected
          /\ expansion(e, max_detection_of(source, target, DefaultPercentage),
                       DefaultQuanta) = {}

\* nx.shortest_path_length from src to every node, weight='dist'
shortest_path_length(nodes, edges, src) ==
    LET in_edges == [v \in nodes |-> {e \in edges : e.v = v}] @@ <<>>
    IN  Relaxed([v \in nodes |-> IF v = src THEN 0 ELSE Unreachable], in_edges, nodes)

\* the copies of the target in the layers graph
target_copies == {n \in layers_graph.nodes : n.name = coordinate_str(target)}

\* C11: in the layers graph the shortest distance from (source, layer 0) to
\* (target, highest layer) is the least, over all layers L, of the shortest
\* distances from (source, layer 0) to (target, L).
C11_TopLayerIsMinimum ==
    LayersGraphBuilt =>
        LET dist == shortest_path_length(layers_graph.nodes, layers_graph.edges,
                                         layers_graph.source)
        IN  dist[layers_graph.target] = Min({dist[n] : n \in target_copies})

\* a layers graph of several layers whose highest copy of the target is
\* reached, and reached at a greater distance or not at all once the links
\* between the copies of the target are taken away
C11_Witness ==
    /\ LayersGraphBuilt
    /\ layers_graph.target.layer > 0
    /\ LET dist == shortest_path_length(layers_graph.nodes, layers_graph.edges,
                                        layers_graph.source)
           bare == shortest_path_length(layers_graph.nodes,
                                        {e \in layers_graph.edges : ~target_chain_edge(e)},
                                        layers_graph.source)
       IN  /\ dist[layers_graph.target] < Unreachable
           /\ dist[layers_graph.target] < bare[layers_graph.target]

(***************************************************************************)
(* Decoding.                                                               *)
(***************************************************************************)
\* the coordinates of a layered path, the layer suffix removed
without_layers(layered_path) ==
    [i \in DOMAIN layered_path |-> from_str(split_0(layered_path[i]))]

\* p with every entry tgt that follows an entry tgt left out
collapse_target_runs(p, tgt) ==
    LET keep == {i \in DOMAIN p : ~(i > 1 /\ p[i] = tgt /\ p[i - 1] = tgt)}
        nth(k) == CHOOSE i \in keep : Cardinality({j \in keep : j <= i}) = k
    IN  [k \in 1..Cardinality(keep) |-> p[nth(k)]]

\* C12: for every layered shortest path found in variant 3,
\* retrieve_path_from_layered_path returns its coordinates with the layer
\* suffix removed and the runs of the target collapsed: no two consecutive
\* points of the decoded path are equal and the target occurs in it once, as
\* its last element.
C12_DecodedPath ==
    (LayersGraphBuilt /\ Ended) =>
        LET found == shortest_path(layers_graph.nodes, layers_graph.edges,
                                   layers_graph.source, layers_graph.target)
        IN  found # {} =>
                /\ Returned
                /\ path \in {collapse_target_runs(without_layers(p), target) : p \in found}
                /\ \A i \in 1..(Len(path) - 1) : path[i] # path[i + 1]
                /\ {i \in DOMAIN path : path[i] = target} = {Len(path)}

(***************************************************************************)
(* The roadmap of add_nodes_inside_radars.                                 *)
(***************************************************************************)
\* add_nodes_inside_radars has returned
RoadmapBuilt == variant \in {2, 3} /\ pc \notin {"start", "seeded", "connected"}

\* the nodes that add_nodes_inside_radars added
sampled_nodes == Range(graph.nodes) \ seed_nodes

\* the edges of the graph from u to v
edges_between(u, v) == {e \in graph.edges : e.u = u /\ e.v = v}

\* the legality test that decides the edge from u to v of a sampled node
connection_test(u, v) ==
    IF variant = 2 THEN is_legal_leg(u, v, enemies)
    ELSE is_leg_legal_only_no_entrances(u, v, enemies)

\* the edge from u to v that the connection rule asks for, if any
connection(u, v) ==
    IF distance_to(u, v) <= EDGE_RADIUS /\ connection_test(u, v)
    THEN {[u |-> u, v |-> v, dist |-> distance_to(u, v),
           detected |-> IF variant = 2 THEN FALSE
                        ELSE ~is_leg_legal_only_radars(u, v, enemies)]}
    ELSE {}

\* C13: for every sampled node s and every other node o of the graph within
\* EDGE_RADIUS (5 units) of it, the edge s -> o is in the graph iff the
\* legality test of the leg s -> o passes, and the edge o -> s iff the test of
\* the leg o -> s passes; in variant 3 each edge carries the detected flag of
\* its own direction; a sampled node has no edge to or from a node farther
\* away than EDGE_RADIUS.
C13_RoadmapConnectionRule ==
    RoadmapBuilt =>
        \A s \in sampled_nodes : \A o \in Range(graph.nodes) \ {s} :
            /\ edges_between(s, o) = connection(s, o)
            /\ edges_between(o, s) = connection(o, s)

\* a roadmap of variant 3 with a sampled node that has, among the other
\* nodes: one it is joined to by an edge flagged detected, one within
\* EDGE_RADIUS whose leg fails the test, one farther away than EDGE_RADIUS,
\* and another sampled node it is joined to
C13_Witness ==
    /\ RoadmapBuilt
    /\ variant = 3
    /\ \E s \in sampled_nodes :
          /\ \E o \in Range(graph.nodes) \ {s} : \E e \in edges_between(s, o) : e.detected
          /\ \E o \in Range(graph.nodes) \ {s} :
                distance_to(s, o) <= EDGE_RADIUS /\ ~connection_test(s, o)
          /\ \E o \in Range(graph.nodes) \ {s} : distance_to(s, o) > EDGE_RADIUS
          /\ \E o \in sampled_nodes \ {s} : edges_between(s, o) # {}

(***************************************************************************)
(* The seed graph.                                                         *)
(***************************************************************************)
\* the loop over the pairs of seed nodes of solution_stage3 has ended
SeedEdgesBuilt == variant = 3 /\ pc = "connected"

\* C14 as claimed: in variant 3 every pair of seed nodes whose leg passes the
\* legality test of the no-entry threats alone has an edge, and the detected
\* flag of the edge is the negation of the legality test of the radars alone.
C14_SeedEdgesFlagged ==
    SeedEdgesBuilt =>
        \A u \in Range(graph.nodes) : \A v \in Range(graph.nodes) \ {u} :
            is_leg_legal_only_no_entrances(u, v, enemies) =>
                \E e \in edges_between(u, v) :
                    e.detected = ~is_leg_legal_only_radars(u, v, enemies)

\* C14 amended: in variant 3 the seed loop adds the edge of a pair of seed
\* nodes, in both directions, iff the leg is legal for all enemies, the radars
\* included, and always with detected = False; a pair whose leg only a radar
\* forbids has no edge.
C14_SeedEdgesLegalUnflagged ==
    SeedEdgesBuilt =>
        \A u \in Range(graph.nodes) : \A v \in Range(graph.nodes) \ {u} :
            edges_between(u, v) =
                IF is_legal_leg(u, v, enemies)
                THEN {[u |-> u, v |-> v, dist |-> distance_to(u, v), detected |-> FALSE]}
                ELSE {}

\* a seed graph of variant 3 with a pair that has an edge and a pair whose
\* leg passes the no-entry test and fails the radar test
C14_Witness ==
    /\ SeedEdgesBuilt
    /\ graph.edges # {}
    /\ \E u \in Range(graph.nodes) : \E v \in Range(graph.nodes) \ {u} :
          /\ is_leg_legal_only_no_entrances(u, v, enemies)
          /\ ~is_leg_legal_only_radars(u, v, enemies)
          /\ edges_between(u, v) = {}

\* graph.add_node(source), graph.add_node(target) and add_enemies_to_graph
\* have returned and no edge is built yet
SeedNodesBuilt == pc = "seeded"

\* the source, the target, the vertices of the zones and the approximate
\* boundaries of the circular enemies of the given types
seeding(circular) ==
    {source, target}
    \cup UNION {Range(enemies[i].boundary) :
                  i \in {j \in DOMAIN enemies : enemies[j].type = "AsteroidsZone"}}
    \cup UNION {Range(approximate_boundary(enemies[i])) :
                  i \in {j \in DOMAIN enemies : enemies[j].type \in circular}}

\* C15 as claimed: in every variant the nodes of the graph before the edges
\* are built are the source, the target, the vertices of the zones and the
\* approximate boundary of every circular enemy, ObservationPost and Radar
\* alike.
C15_SeedNodes ==
    SeedNodesBuilt => Range(graph.nodes) = seeding({"ObservationPost", "Radar"})

\* C15 amended: that holds in variants 2 and 3; in variant 1 the nodes are
\* the source, the target, the vertices of the zones and the approximate
\* boundary of every ObservationPost, and a Radar adds no node.
C15_SeedNodesByVariant ==
    SeedNodesBuilt =>
        Range(graph.nodes) = IF variant = 1 THEN seeding({"ObservationPost"})
                             ELSE seeding({"ObservationPost", "Radar"})

\* the seeded graph of variant 1 for an ObservationPost and a Radar
C15_Witness ==
    /\ SeedNodesBuilt
    /\ variant = 1
    /\ \E i \in DOMAIN enemies : enemies[i].type = "ObservationPost"
    /\ \E i \in DOMAIN enemies : enemies[i].type = "Radar"

(***************************************************************************)
(* The radar.                                                              *)
(***************************************************************************)
\* the values of direction_to: math.atan2, in whole degrees
Bearings == -180..180

\* _compute_direction_diff maps every two bearings into [0, 90] degrees
folded_everywhere ==
    \A direction1 \in Bearings : \A direction2 \in Bearings :
        compute_direction_diff(direction1, direction2) \in 0..90

\* C16: _compute_direction_diff maps every pair of bearings into [0, 90]
\* degrees, and Radar.is_legal_leg returns False iff the leg has a portion of
\* positive length inside the circle and, for one of the two ends of that
\* portion, the folded difference between the direction of travel and the
\* bearing from that end to the center is below 45 degrees; a leg without
\* such a portion is legal.  Checked for every radar and every leg between
\* two nodes of the graph.
C16_RadarLegality ==
    /\ folded_everywhere
    /\ Ended =>
          \A i \in {j \in DOMAIN enemies : enemies[j].type = "Radar"} :
             \A u \in Range(graph.nodes) : \A v \in Range(graph.nodes) \ {u} :
                LET portion == radar_intersection(enemies[i], u, v)
                    folded == [k \in DOMAIN portion |->
                                 compute_direction_diff(direction_to(u, v), portion[k])]
                IN  /\ \A k \in DOMAIN portion : folded[k] \in 0..90
                    /\ Radar_is_legal_leg(enemies[i], u, v)
                          = ~(portion # <<>> /\ \E k \in DOMAIN portion : folded[k] < 45)

\* a graph with a radar and four legs between its nodes: one outside the
\* circle, one through it that is legal, one that is illegal because of the
\* end of the portion only, and one because of its start only
C16_Witness ==
    /\ Ended
    /\ \E i \in {j \in DOMAIN enemies : enemies[j].type = "Radar"} :
          /\ \E u \in Range(graph.nodes) : \E v \in Range(graph.nodes) \ {u} :
                radar_intersection(enemies[i], u, v) = <<>>
          /\ \E u \in Range(graph.nodes) : \E v \in Range(graph.nodes) \ {u} :
                /\ radar_intersection(enemies[i], u, v) # <<>>
                /\ Radar_is_legal_leg(enemies[i], u, v)
          /\ \E u \in Range(graph.nodes) : \E v \in Range(graph.nodes) \ {u} :
                LET portion == radar_intersection(enemies[i], u, v)
                IN  /\ portion # <<>>
                    /\ compute_direction_diff(direction_to(u, v), portion[1]) >= 45
                    /\ compute_direction_diff(direction_to(u, v), portion[2]) < 45
          /\ \E u \in Range(graph.nodes) : \E v \in Range(graph.nodes) \ {u} :
                LET portion == radar_intersection(enemies[i], u, v)
                IN  /\ portion # <<>>
                    /\ compute_direction_diff(direction_to(u, v), portion[1]) < 45
                    /\ compute_direction_diff(direction_to(u, v), portion[2]) >= 45

(***************************************************************************)
(* The sampler.                                                            *)
(***************************************************************************)
\* the graph that calculate_path hands to add_nodes_inside_radars
graph_before_sampling ==
    LET g == add_enemies_to_graph(add_node(add_node(EmptyGraph, source), target), enemies)
    IN  IF variant = 2 THEN connect_stage2(g, enemies) ELSE connect_stage3(g, enemies)

\* p lies inside the circle of the radar
in_circle(radar, p) ==
    Dot(Sub(p, radar.center), Sub(p, radar.center)) < radar.radius * radar.radius

\* C17: with R >= 1 radars the sampler draws SAMPLES div R nodes for each
\* radar in turn (SAMPLES is cut to ModelSamples here), the same number for
\* each and at most SAMPLES in all; every sampled node lies inside the circle
\* of its radar; the nodes of the graph afterwards are the seed nodes and the
\* sampled nodes; with R = 0 the nodes and the edges of the graph are left
\* unchanged.
C17_SamplesPerRadar ==
    LET radars == Radars(enemies)
        R == Len(radars)
    IN  /\ (variant \in {2, 3} /\ pc = "connected" /\ R >= 1) =>
              \A new_nodes \in NewNodes(radars, samples_per_radar(enemies)) :
                 /\ Len(new_nodes) = R * (ModelSamples \div R)
                 /\ Len(new_nodes) <= SAMPLES
                 /\ \A k \in 1..R : \A j \in 1..(ModelSamples \div R) :
                        in_circle(radars[k], new_nodes[(k - 1) * (ModelSamples \div R) + j])
        /\ (RoadmapBuilt /\ R >= 1) =>
              /\ seed_nodes \subseteq Range(graph.nodes)
              /\ \A s \in sampled_nodes : \E k \in 1..R : in_circle(radars[k], s)
              /\ Cardinality(sampled_nodes) <= R * (ModelSamples \div R)
        /\ (RoadmapBuilt /\ R = 0) => graph = graph_before_sampling

\* the sampler has run for two radars and has added two different nodes, and
\* the seed graph had edges
C17_Witness ==
    /\ RoadmapBuilt
    /\ Len(Radars(enemies)) = 2
    /\ Cardinality(sampled_nodes) = 2
    /\ graph_before_sampling.edges # {}

(***************************************************************************)
(* sample_in_polygon and concurrent queries (SamplingSpec).                *)
(***************************************************************************)
\* C18: sample_in_polygon returns or fails explicitly in the end for every
\* radar circle, the zero-area ones included: the number of rejected draws is
\* bounded by an iteration cap.
C18_SamplerTerminates ==
    \A q \in Queries :
        sampler_pc[q] = "bounds" ~> sampler_pc[q] \in {"returned", "raised"}

\* the point that sample_in_polygon returns for the radar when no other query
\* draws from the generator, from the given state on; <<>> if it returns none
RECURSIVE first_accepted(_, _, _)
first_accepted(r, state, draws) ==
    IF draws = 0 THEN <<>>
    ELSE LET px == random_uniform(r.center[1] - r.radius, r.center[1] + r.radius, state)
             py == random_uniform(r.center[2] - r.radius, r.center[2] + r.radius,
                                  random_step(state))
         IN  IF polygon_contains(r, <<px, py>>) THEN <<px, py>>
             ELSE first_accepted(r, random_step(random_step(state)), draws - 1)

\* C19: concurrent queries share no mutable state: the outcome of a query,
\* its random samples included, does not depend on whether or how the other
\* query runs; the point that sample_in_polygon returns to a query is the
\* point it returns when the query runs alone.
C19_QueriesIndependent ==
    \A q \in Queries :
        sampler_pc[q] = "returned" => point[q] = first_accepted(query_radar[q], 0, RandomStates)

\* C20: malformed geometry (a radius that is not positive) is rejected when
\* the threat is constructed, so every Radar object has a positive radius,
\* and afterwards no query fails because of invalid geometry.
C20_MalformedRejected ==
    \A q \in Queries :
        /\ query_radar[q] # NoRadar => query_radar[q].radius > 0
        /\ sampler_pc[q] # "raised"

(***************************************************************************)
(* submission_app.  A path string is the sequence of its characters; the   *)
(* numbers it holds are read in tenths, the unit of the coordinates here.  *)
(***************************************************************************)
Digits == <<"0", "1", "2", "3", "4", "5", "6", "7", "8", "9">>

\* str.isnumeric of one character
isnumeric(c) == \E d \in DOMAIN Digits : Digits[d] = c

digit(c) == (CHOOSE d \in DOMAIN Digits : Digits[d] = c) - 1

\* the token without its sign
unsigned(s) == IF s # <<>> /\ s[1] = "-" THEN Tail(s) ELSE s

\* _is_float: float(s) does not raise
is_float(s) ==
    LET body == unsigned(s)
    IN  /\ \A i \in DOMAIN body : isnumeric(body[i]) \/ body[i] = "."
        /\ Cardinality({i \in DOMAIN body : body[i] = "."}) <= 1
        /\ \E i \in DOMAIN body : isnumeric(body[i])

RECURSIVE whole_number(_)
whole_number(ds) ==
    IF ds = <<>> THEN 0
    ELSE 10 * whole_number(SubSeq(ds, 1, Len(ds) - 1)) + digit(ds[Len(ds)])

\* float(s) of a token that is_float, in tenths
float(s) ==
    LET body == unsigned(s)
        dot == IF \E i \in DOMAIN body : body[i] = "."
               THEN CHOOSE i \in DOMAIN body : body[i] = "."
               ELSE Len(body) + 1
        tenths == IF dot < Len(body) THEN digit(body[dot + 1]) ELSE 0
        value == 10 * whole_number(SubSeq(body, 1, dot - 1)) + tenths
    IN  IF s[1] = "-" THEN -value ELSE value

\* str.split(): the maximal runs of characters other than spaces, in order
split(s) ==
    LET starts == {i \in DOMAIN s : s[i] # " " /\ (i = 1 \/ s[i - 1] = " ")}
        start(k) == CHOOSE i \in starts : Cardinality({j \in starts : j < i}) = k - 1
        end(i) == CHOOSE j \in i..Len(s) :
                      /\ \A k \in i..j : s[k] # " "
                      /\ j = Len(s) \/ s[j + 1] = " "
    IN  [k \in 1..Cardinality(starts) |-> SubSeq(s, start(k), end(start(k)))] @@ <<>>

\* _convert_string_to_path: the coordinates of the string, or ValueError
convert_string_to_path(path_str) ==
    LET path_stripped == [i \in DOMAIN path_str |->
                             IF path_str[i] \in {"(", ")", ","} THEN " " ELSE path_str[i]]
                         @@ <<>>
        floats == SelectSeq(split(path_stripped), is_float)
        numbers == [i \in DOMAIN floats |-> float(floats[i])] @@ <<>>
    IN  IF ~ \A i \in DOMAIN path_stripped :
                isnumeric(path_stripped[i]) \/ path_stripped[i] \in {" ", ".", "-"}
        THEN [raised |-> "ValueError", coordinates |-> <<>>]
        ELSE IF Len(numbers) % 2 # 0
        THEN [raised |-> "ValueError", coordinates |-> <<>>]
        ELSE [raised |-> "none",
              coordinates |-> [i \in 1..(Len(numbers) \div 2) |->
                                  <<numbers[2 * i - 1], numbers[2 * i]>>] @@ <<>>]

\* the legs of a path: zip(path, path[1:])
legs(p) == 1..(Len(p) - 1)

path_crosses_no_entrance(p, enemy_list) ==
    \E i \in legs(p) : ~is_leg_legal_only_no_entrances(p[i], p[i + 1], enemy_list)

RECURSIVE compute_radar_detection_distance_from(_, _, _)
compute_radar_detection_distance_from(p, enemy_list, i) ==
    IF i >= Len(p) THEN 0
    ELSE (IF ~is_leg_legal_only_radars(p[i], p[i + 1], enemy_list)
          THEN distance_to(p[i], p[i + 1]) ELSE 0)
         + compute_radar_detection_distance_from(p, enemy_list, i + 1)

compute_radar_detection_distance(p, enemy_list) ==
    compute_radar_detection_distance_from(p, enemy_list, 1)

RECURSIVE compute_path_length_from(_, _)
compute_path_length_from(p, i) ==
    IF i >= Len(p) THEN 0
    ELSE distance_to(p[i], p[i + 1]) + compute_path_length_from(p, i + 1)

compute_path_length(p) == compute_path_length_from(p, 1)

\* the submissions file: the entries of the dict in file order
entry_of(subs, username) == CHOOSE i \in DOMAIN subs : subs[i].username = username

has_entry(subs, username) == \E i \in DOMAIN subs : subs[i].username = username

\* submissions[username] = entry: a key of the dict keeps its place, a new key is last
set_entry(subs, entry) ==
    IF has_entry(subs, entry.username)
    THEN [i \in DOMAIN subs |-> IF subs[i].username = entry.username THEN entry ELSE subs[i]]
         @@ <<>>
    ELSE Append(subs, entry)

\* the order of the key (path_length, submission_time)
key_before(a, b) ==
    \/ a.path_length < b.path_length
    \/ a.path_length = b.path_length /\ a.submission_time < b.submission_time

\* sorted(submissions.items(), key=...): entries of equal key keep their order
sorted_by_key(subs) ==
    LET rank(i) == Cardinality({j \in DOMAIN subs :
                       \/ key_before(subs[j], subs[i])
                       \/ ~key_before(subs[i], subs[j]) /\ j < i}) + 1
    IN  [k \in DOMAIN subs |-> subs[CHOOSE i \in DOMAIN subs : rank(i) = k]] @@ <<>>

\* save_submission_dict writes the file without sorting it
save_submission_dict_unsorted(subs) == subs

\* save_submission_dict: the content written to the file
save_submission_dict(subs) == sorted_by_key(subs)

\* save_path stores the path whatever the length stored for the user
save_path_improves_always(subs, username, p) == TRUE

\* save_path: the path is stored unless the user has one that is not longer
save_path_improves(subs, username, p) ==
    ~(/\ has_entry(subs, username)
      /\ compute_path_length(p) >= subs[entry_of(subs, username)].path_length)

\* save_path: the dict after submissions[username] = {...}
save_path_update(subs, username, p, now) ==
    set_entry(subs, [username |-> username, path_length |-> compute_path_length(p),
                     submission_time |-> now, path |-> p])

\* load_scenario_results: the leaderboard
leaderboard(subs) == SubSeq(subs, 1, IF Len(subs) < 5 THEN Len(subs) ELSE 5)

\* the path strings submitted
PathStrings ==
    { \* '(0, 0), (11, 0)'
      <<"(", "0", ",", " ", "0", ")", ",", " ", "(", "1", "1", ",", " ", "0", ")">>,
      \* '(0, 0), (5.5, 4), (11, 0)'
      <<"(", "0", ",", " ", "0", ")", ",", " ", "(", "5", ".", "5", ",", " ", "4", ")", ",", " ", "(", "1", "1", ",", " ", "0", ")">>,
      \* '(0, 0), (5.5, -4), (11, 0)'
      <<"(", "0", ",", " ", "0", ")", ",", " ", "(", "5", ".", "5", ",", " ", "-", "4", ")", ",", " ", "(", "1", "1", ",", " ", "0", ")">>,
      \* '(0, 0), (5.5, 5), (11, 0)'
      <<"(", "0", ",", " ", "0", ")", ",", " ", "(", "5", ".", "5", ",", " ", "5", ")", ",", " ", "(", "1", "1", ",", " ", "0", ")">>,
      \* '0 0 - 11 0'
      <<"0", " ", "0", " ", "-", " ", "1", "1", " ", "0">>,
      \* '(0, 0), (5.5, 4)'
      <<"(", "0", ",", " ", "0", ")", ",", " ", "(", "5", ".", "5", ",", " ", "4", ")">>,
      \* '(5.5, 4), (11, 0)'
      <<"(", "5", ".", "5", ",", " ", "4", ")", ",", " ", "(", "1", "1", ",", " ", "0", ")">>,
      \* '()'
      <<"(", ")">>,
      \* '-'
      <<"-">>,
      \* '(0, 0), (11'
      <<"(", "0", ",", " ", "0", ")", ",", " ", "(", "1", "1">>,
      \* '(0, a)'
      <<"(", "0", ",", " ", "a", ")">>,
      \* ''
      <<>> }

\* _convert_string_to_path of every path string submitted
parsed_path == [path_str \in PathStrings |-> convert_string_to_path(path_str)] @@ <<>>

ErrorMessage(text) == [style |-> "ERROR_STYLE", text |-> text]

\* submit_button_clicked up to the call of save_path: the response, or
\* "save_path" when the path passes every check
validation(path_str, src, tgt, enemy_list) ==
    LET parsed == parsed_path[path_str]
        p == parsed.coordinates
    IN  IF path_str = <<>> THEN ErrorMessage("You must enter a path")
        ELSE IF parsed.raised # "none" THEN ErrorMessage("error while parsing")
        ELSE IF p = <<>> THEN [style |-> "raised", text |-> "IndexError"]
        ELSE IF src # p[1] THEN ErrorMessage("First coordinate must be the source")
        ELSE IF tgt # p[Len(p)] THEN ErrorMessage("Last coordinate must be the target")
        ELSE IF path_crosses_no_entrance(p, enemy_list)
        THEN ErrorMessage("crosses a non-entrance zone")
        ELSE IF compute_radar_detection_distance(p, enemy_list) > 0
        THEN ErrorMessage("miles under detection")
        ELSE [style |-> "none", text |-> "save_path"]

\* the bound of time.time(): the submissions stored in one run
MaxSubmissions == 3

\* the enemies of the scenarios submitted to
SubmissionEnemies ==
    { <<Radar(<<20, 0>>, 3)>>,
      <<ObservationPost(<<55, 0>>, 28), Radar(<<20, 0>>, 3)>> }

\* load_scenario: the scenario of the dropdown; no planner runs
SubmissionInit ==
    /\ variant = 3
    /\ source = <<0, 0>>
    /\ target = <<110, 0>>
    /\ enemies \in SubmissionEnemies
    /\ pc = "idle"
    /\ graph = EmptyGraph
    /\ layers_graph = [nodes |-> {}, edges |-> {}, source |-> layer_key(source, 0),
                       target |-> layer_key(target, 0)]
    /\ path = <<>>
    /\ raised = "none"
    /\ SamplerIdle
    /\ SubmissionIdle

\* submit_button_clicked of user u with the path string of the input field,
\* up to load_submission_dict in save_path
SubmitButtonClicked(u, path_str) ==
    /\ request_pc[u] = "idle"
    /\ clock < MaxSubmissions
    /\ LET response == validation(path_str, source, target, enemies)
       IN  IF response.text = "save_path"
           THEN /\ request_pc' = [request_pc EXCEPT ![u] = "save_path"]
                /\ request_path' = [request_path EXCEPT
                                       ![u] = parsed_path[path_str].coordinates]
                /\ submissions' = [submissions EXCEPT ![u] = submissions_file]
                /\ submit_message' = [submit_message EXCEPT ![u] = NoMessage]
           ELSE /\ submit_message' = [submit_message EXCEPT ![u] = response]
                /\ UNCHANGED <<request_pc, request_path, submissions>>
    /\ UNCHANGED <<planner_vars, sampler_vars, submissions_file, clock, saved>>

\* the rest of save_path and of submit_button_clicked: the comparison with
\* the entry loaded, the update, save_submission_dict and the response
SavePath(u) ==
    /\ request_pc[u] = "save_path"
    /\ LET new_length == compute_path_length(request_path[u])
       IN  IF save_path_improves(submissions[u], u, request_path[u])
           THEN /\ submissions_file' =
                       save_submission_dict(
                           save_path_update(submissions[u], u, request_path[u], clock))
                /\ clock' = clock + 1
                /\ saved' = [saved EXCEPT ![u] = @ \cup {new_length}]
                /\ submit_message' = [submit_message EXCEPT
                       ![u] = [style |-> "OK_STYLE", text |-> "Path was successfully submitted"]]
           ELSE /\ submit_message' = [submit_message EXCEPT
                       ![u] = [style |-> "MEH_STYLE", text |-> "not an improvement"]]
                /\ UNCHANGED <<submissions_file, clock, saved>>
    /\ request_pc' = [request_pc EXCEPT ![u] = "idle"]
    /\ request_path' = [request_path EXCEPT ![u] = <<>>]
    /\ submissions' = [submissions EXCEPT ![u] = <<>>]
    /\ UNCHANGED <<planner_vars, sampler_vars>>

\* one request at a time: the click is handled while no other request runs
SubmitAlone(u, path_str) ==
    /\ \A o \in Users : request_pc[o] = "idle"
    /\ SubmitButtonClicked(u, path_str)

SubmissionNext ==
    \E u \in Users :
        \/ \E path_str \in PathStrings : SubmitAlone(u, path_str)
        \/ SavePath(u)

SubmissionSpec == SubmissionInit /\ [][SubmissionNext]_vars

\* the requests of the users are handled by threads of the server
ConcurrentSubmissionNext ==
    \E u \in Users :
        \/ \E path_str \in PathStrings : SubmitButtonClicked(u, path_str)
        \/ SavePath(u)

ConcurrentSubmissionSpec == SubmissionInit /\ [][ConcurrentSubmissionNext]_vars

(***************************************************************************)
(* Validation of submitted paths.                                          *)
(***************************************************************************)
\* the four conditions on a submitted path: first point the source, last
\* point the target, no leg across a no-entry zone, detected distance within
\* the budget max_detection of the scenario (hundredths of a tenth)
meets_conditions(p) ==
    /\ p # <<>>
    /\ p[1] = source
    /\ p[Len(p)] = target
    /\ \A i \in legs(p) : is_leg_legal_only_no_entrances(p[i], p[i + 1], enemies)
    /\ compute_radar_detection_distance(p, enemies) * 100
           <= max_detection_of(source, target, DefaultPercentage)

\* C21: submit_button_clicked hands a parsed path to save_path only if the
\* path meets the four conditions (source, target, no-entry zones, budget),
\* and a parsed path that misses one of them is answered with a message in
\* ERROR_STYLE and leaves the submissions file as it was.
C21_ValidationAccepts ==
    [][\A u \in Users : \A path_str \in PathStrings :
           (/\ SubmitAlone(u, path_str)
            /\ path_str # <<>>
            /\ parsed_path[path_str].raised = "none")
           => LET p == parsed_path[path_str].coordinates
              IN  /\ request_pc'[u] = "save_path" => meets_conditions(p)
                  /\ ~meets_conditions(p)
                         => /\ submit_message'[u].style = "ERROR_STYLE"
                            /\ request_pc'[u] = "idle"
                            /\ submissions_file' = submissions_file]_vars

\* C30: every path string that is not handed to save_path, among them the
\* strings that parse to an empty coordinate list, is answered with a message
\* in ERROR_STYLE and nothing is stored; submit_button_clicked never raises.
C30_InputErrorsReported ==
    [][\A u \in Users : \A path_str \in PathStrings :
           SubmitAlone(u, path_str)
           => /\ submit_message'[u].style # "raised"
              /\ request_pc'[u] = "idle"
                     => /\ submit_message'[u].style = "ERROR_STYLE"
                        /\ submissions_file' = submissions_file]_vars

(***************************************************************************)
(* The approximate boundary of a circle.                                   *)
(***************************************************************************)
\* the radii of the circles of a scenario, in tenths
Radii == 1..60

\* the vertex after vertex k on the boundary
next_vertex(k) == (k % Len(ApproxDirections)) + 1

\* the polygon approximate_boundary of a circle: n vertices at the distance
\* buffed_radius, which is at least radius / cos(pi / n), and no edge with a
\* point closer to the center than radius
outbounds(enemy) ==
    LET b == approximate_boundary(enemy)
    IN  /\ Len(b) = Len(ApproxDirections)
        /\ \A k \in DOMAIN b :
              /\ distance_to(enemy.center, b[k]) = buffed_radius(enemy.radius)
              /\ Dot(Sub(b[k], enemy.center), Sub(b[k], enemy.center))
                     >= 2 * enemy.radius * enemy.radius
              /\ ~SegmentInDisc(enemy.center, enemy.radius, b[k], b[next_vertex(k)])

outbounds_everywhere ==
    \A radius \in Radii : /\ outbounds(ObservationPost(<<0, 0>>, radius))
                          /\ outbounds(Radar(<<0, 0>>, radius))

bounds_every_path(nodes, edges, src, tgt, total) ==
    LET dist == shortest_path_length(nodes, edges, src)
    IN  /\ dist[src] = 0
        /\ \A e \in edges : dist[e.u] < Unreachable => dist[e.v] <= dist[e.u] + e.dist
        /\ dist[tgt] = total

\* the path p of the base graph, from its point i on, is the decoding of a
\* path of the layers graph that leaves p[i] in the given layer, follows edges
\* of the same dist and ends at the target of the search
RECURSIVE lifts(_, _, _)
lifts(p, i, layer) ==
    IF i = Len(p)
    THEN /\ layer_key(p[i], layer).name = layers_graph.target.name
         /\ layer <= layers_graph.target.layer
         /\ layer_key(p[i], layer) \in layers_graph.nodes
    ELSE \E e \in layers_graph.edges :
            /\ e.u = layer_key(p[i], layer)
            /\ e.v.name = coordinate_str(p[i + 1])
            /\ e.dist = edge_of(graph, p[i], p[i + 1]).dist
            /\ lifts(p, i + 1, e.v.layer)

\* C23: every edge of the base graph and of the layers graph has dist >= 0,
\* and a non-empty path returned by a planner is a path of the graph searched
\* (for solution_stage3 the decoding of a path of the layers graph from
\* (source, 0.0) to (target, highest layer)) whose total dist no directed path
\* of that graph between the same nodes undercuts.
C23_SolverOptimal ==
    /\ \A e \in graph.edges : e.dist >= 0
    /\ \A e \in layers_graph.edges : e.dist >= 0
    /\ (Returned /\ path # <<>>) =>
          /\ path[1] = source
          /\ path[Len(path)] = target
          /\ LegsAreEdges(graph, path)
          /\ IF variant = 3
             THEN /\ lifts(path, 1, 0)
                  /\ bounds_every_path(layers_graph.nodes, layers_graph.edges,
                                       layers_graph.source, layers_graph.target,
                                       path_length(graph, path))
             ELSE bounds_every_path(Range(graph.nodes), graph.edges, source, target,
                                    path_length(graph, path))

\* solution_stage3 returns a path of several legs although the graph holds
\* a route of fewer legs and greater total dist
C23_Witness ==
    /\ Returned
    /\ variant = 3
    /\ Len(path) > 2
    /\ \E p \in shortest_path(Range(graph.nodes), {[e EXCEPT !.dist = 1] : e \in graph.edges},
                              source, target) :
          /\ Len(p) <= Len(path)
          /\ path_length(graph, p) > path_length(graph, path)

(***************************************************************************)
(* The detected flags of the base graph of solution_stage3.                *)
(***************************************************************************)
\* C24: in solution_stage3, once the seed edges are inserted and again once
\* add_nodes_inside_radars has returned, every directed edge (u, v) of the
\* base graph passes the legality test of the no-entry threats alone, and
\* its detected flag is the negation of the legality test of the radars
\* alone for the leg from u to v.
C24_FlagsConsistent ==
    (variant = 3 /\ pc \in {"connected", "sampled"}) =>
        \A e \in graph.edges :
            /\ is_leg_legal_only_no_entrances(e.u, e.v, enemies)
            /\ e.detected = ~is_leg_legal_only_radars(e.u, e.v, enemies)

\* a roadmap with flagged edges at sampled nodes in both directions and with
\* unflagged edges between the seed vertices of a radar
C24_Witness ==
    /\ variant = 3
    /\ pc = "sampled"
    /\ \E e \in graph.edges : e.detected /\ e.u \in sampled_nodes
    /\ \E e \in graph.edges : e.detected /\ e.v \in sampled_nodes
    /\ \E i \in DOMAIN enemies :
          /\ enemies[i].type = "Radar"
          /\ \E e \in graph.edges :
                /\ ~e.detected
                /\ {e.u, e.v} \subseteq Range(approximate_boundary(enemies[i]))

(***************************************************************************)
(* The submissions stored.                                                 *)
(***************************************************************************)
\* the entries of the file of the users other than username
entries_of_others(subs, username) ==
    {subs[i] : i \in {j \in DOMAIN subs : subs[j].username # username}}

\* C25: with the requests handled one after the other, after every save_path
\* the path_length stored for a user is the least length that save_path has
\* stored for that user (and there is no entry for a user without one); a call
\* with a length greater than or equal to the stored one returns False and
\* leaves the file as it is; no call changes the entry of another user.
C25_PersonalBest ==
    [][\A u \in Users :
          SavePath(u) =>
              /\ \A o \in Users :
                    IF saved'[o] = {} THEN ~has_entry(submissions_file', o)
                    ELSE /\ has_entry(submissions_file', o)
                         /\ submissions_file'[entry_of(submissions_file', o)].path_length
                                = Min(saved'[o])
              /\ (/\ has_entry(submissions_file, u)
                  /\ compute_path_length(request_path[u])
                         >= submissions_file[entry_of(submissions_file, u)].path_length)
                     => /\ submit_message'[u].style = "MEH_STYLE"
                        /\ submissions_file' = submissions_file
              /\ entries_of_others(submissions_file', u)
                     = entries_of_others(submissions_file, u)]_vars

\* a user has improved a stored path, and another user with an entry has
\* been told that a path is no improvement
C25_Witness ==
    \E u \in Users : \E o \in Users \ {u} :
        /\ Cardinality(saved[u]) >= 2
        /\ has_entry(submissions_file, o)
        /\ submit_message[o].style = "MEH_STYLE"
        /\ \A w \in Users : request_pc[w] = "idle"

\* the entries of a file are in ascending order of (path_length, submission_time)
is_ordered(subs) ==
    \A i \in DOMAIN subs : \A j \in DOMAIN subs : i < j => ~key_before(subs[j], subs[i])

\* six entries of six users, some of equal length, and the dicts that hold
\* them in any order of insertion
SixEntries ==
    << [username |-> "user1", path_length |-> 136, submission_time |-> 1],
       [username |-> "user2", path_length |-> 148, submission_time |-> 2],
       [username |-> "user3", path_length |-> 136, submission_time |-> 3],
       [username |-> "user4", path_length |-> 110, submission_time |-> 4],
       [username |-> "user5", path_length |-> 148, submission_time |-> 5],
       [username |-> "user6", path_length |-> 136, submission_time |-> 6] >>

SixUserDicts ==
    {[i \in DOMAIN SixEntries |-> SixEntries[order[i]]] :
        order \in {f \in [DOMAIN SixEntries -> DOMAIN SixEntries] :
                      \A i \in DOMAIN f : \A j \in DOMAIN f : f[i] = f[j] => i = j}}

\* the leaderboard of the file written for a dict shows its shortest paths
\* in order, the earlier of two of equal length first: no entry left out
\* precedes an entry shown
shows_shortest(subs) ==
    LET written == save_submission_dict(subs)
        shown == leaderboard(written)
    IN  /\ Len(shown) = IF Len(subs) < 5 THEN Len(subs) ELSE 5
        /\ Range(shown) \subseteq Range(subs)
        /\ is_ordered(shown)
        /\ \A e \in Range(subs) \ Range(shown) : \A s \in Range(shown) : ~key_before(e, s)

shows_shortest_everywhere == \A subs \in SixUserDicts : shows_shortest(subs)

\* C26: the submissions file is at all times in ascending order of
\* (path_length, submission_time), also when the requests interleave, and the
\* leaderboard read from it, the first five entries in file order, shows the
\* five shortest paths, the earlier of two paths of equal length first.
C26_LeaderboardOrder ==
    /\ shows_shortest_everywhere
    /\ is_ordered(submissions_file)
    /\ leaderboard(submissions_file) = submissions_file

\* the later submission of the two stored is the shorter one and comes first
C26_Witness ==
    /\ Len(submissions_file) = 2
    /\ submissions_file[1].submission_time > submissions_file[2].submission_time
    /\ submissions_file[1].path_length < submissions_file[2].path_length

(***************************************************************************)
(* The direction of a leg through a radar.                                 *)
(***************************************************************************)
\* _compute_direction_diff does not change when the first direction turns
\* by half a turn
half_turn_everywhere ==
    \A direction1 \in Bearings : \A direction2 \in Bearings :
        /\ compute_direction_diff(direction1 + 180, direction2)
               = compute_direction_diff(direction1, direction2)
        /\ compute_direction_diff(NormDeg(direction1 + 180), direction2)
               = compute_direction_diff(direction1, direction2)

\* the seed loop of solution_stage2 or solution_stage3 has just ended, or
\* add_nodes_inside_radars has just returned (the graph does not change later)
GraphJustBuilt == variant \in {2, 3} /\ pc \in {"connected", "search", "sampled"}

\* C27: _compute_direction_diff(d1 + 180 degrees, d2) equals
\* _compute_direction_diff(d1, d2) for all bearings; Radar.is_legal_leg
\* gives the same answer for a leg between two nodes of the graph and for
\* the reversed leg; and the seed loop of solution_stage2 and
\* solution_stage3, which tests one direction and inserts both, inserts no
\* direction that a radar detects.
C27_DirectionSymmetry ==
    /\ half_turn_everywhere
    /\ GraphJustBuilt =>
          \A i \in DOMAIN enemies :
              enemies[i].type = "Radar" =>
                  \A u \in Range(graph.nodes) : \A v \in Range(graph.nodes) :
                      Radar_is_legal_leg(enemies[i], u, v) = Radar_is_legal_leg(enemies[i], v, u)
    /\ (variant \in {2, 3} /\ pc = "connected") =>
          \A e \in graph.edges : is_leg_legal_only_radars(e.u, e.v, enemies)

\* seed edges in both directions next to a radar, and a pair of seed nodes
\* whose leg the radar detects in both directions
C27_Witness ==
    /\ variant \in {2, 3}
    /\ pc = "connected"
    /\ \E i \in DOMAIN enemies :
          /\ enemies[i].type = "Radar"
          /\ \E e \in graph.edges :
                {e.u, e.v} \subseteq Range(approximate_boundary(enemies[i]))
          /\ \E u \in Range(graph.nodes) : \E v \in Range(graph.nodes) \ {u} :
                /\ ~Radar_is_legal_leg(enemies[i], u, v)
                /\ ~Radar_is_legal_leg(enemies[i], v, u)

(***************************************************************************)
(* The nodes of the layers graph.                                          *)
(***************************************************************************)
\* build_layers_graph: the layers of the scenario
declared_layers ==
    Range(layers_of(max_detection_of(source, target, DefaultPercentage), DefaultQuanta))

\* build_layers_graph, add_nodes_from: a node for every node of the base
\* graph in every layer
declared_nodes ==
    {layer_key(node, layer) : node \in Range(graph.nodes), layer \in declared_layers}

\* C28: with the quantum 0.5, once build_layers_graph has returned, both
\* ends of every edge of the layers graph
\* (those of add_legal_edge, add_detected_edge and add_target_edges) are nodes
\* that build_layers_graph declared, a node of the base graph in a layer of
\* [0, q, ..., q * floor(max_detection / q)]; no node lies in a layer above
\* the highest; and (source, 0.0) and (target, highest layer), the ends of
\* the search, are nodes of the graph.
C28_LayeredNodeClosure ==
    (variant = 3 /\ pc = "layered") =>
        /\ \A e \in layers_graph.edges : e.u \in declared_nodes /\ e.v \in declared_nodes
        /\ layers_graph.nodes = declared_nodes
        /\ \A n \in layers_graph.nodes :
              /\ n.layer <= layers_graph.target.layer
              /\ n.layer * 100 <= max_detection_of(source, target, DefaultPercentage)
        /\ layers_graph.source = layer_key(source, 0)
        /\ layers_graph.target.name = coordinate_str(target)
        /\ layers_graph.target.layer \in declared_layers
        /\ \A layer \in declared_layers : layer <= layers_graph.target.layer
        /\ layers_graph.source \in layers_graph.nodes
        /\ layers_graph.target \in layers_graph.nodes

\* a layers graph of several layers with an edge of a detected leg that
\* climbs to the highest layer and a detected leg too long for any layer
C28_Witness ==
    /\ variant = 3
    /\ pc = "layered"
    /\ layers_graph.target.layer > 0
    /\ \E e \in layers_graph.edges :
          /\ e.u.name # e.v.name
          /\ e.u.layer < e.v.layer
          /\ e.v.layer = layers_graph.target.layer
    /\ \E e \in graph.edges :
          /\ e.detected
          /\ \A f \in layers_graph.edges :
                ~(f.u.name = coordinate_str(e.u) /\ f.v.name = coordinate_str(e.v))

(***************************************************************************)
(* Requests that interleave.                                               *)
(***************************************************************************)
\* C29: when the save_path calls of two users interleave, the submissions
\* file holds, once the calls have returned, an entry for every user whose
\* path save_path has accepted, with the length of the user's best accepted
\* path.
C29_NoLostUpdate ==
    (\A u \in Users : request_pc[u] = "idle") =>
        \A u \in Users :
            saved[u] # {} =>
                /\ has_entry(submissions_file, u)
                /\ submissions_file[entry_of(submissions_file, u)].path_length = Min(saved[u])

====
